---- MODULE Spec2Model ----
(***************************************************************************)
(* A model of the installer pipeline: remote-then-local resolution of the  *)
(* version, the manifest and the binary (src/src/download/mod.rs) and the  *)
(* deployment of settings documents (src/src/config/mod.rs).               *)
(*                                                                         *)
(* The program is single-threaded and every call blocks until it returns,  *)
(* so one action is one call of a public function: it reads the files the  *)
(* function reads, draws the outcome of every network or file operation    *)
(* that may fail, and leaves the files as the function leaves them.        *)
(***************************************************************************)
EXTENDS Integers, Sequences, FiniteSets, TLC

VARIABLES
    localDir,   \* the local fallback tree (local_dir), read-only for the program
    out,        \* the file at output_path
    srcTree,    \* the platform source config tree under local_dir, read-only
    userFs,     \* the user's directories the configuration is deployed into
    call,       \* the last call: the function and its inputs
    ret,        \* what the last call returned
    log,        \* the file and network operations the last call performed, in order
    inst,       \* install: the next step, the steps run, what they resolved
    home,       \* the tool-config directory besides settings.json
    vsixDir,    \* the extension packages under local_dir, read-only
    cfgTree,    \* the platform source tree's root and certificate directories
    certsDir,   \* the user's certificate directory
    env,        \* the user's environment the platform collaborators write
    osEnv       \* the user's environment as the platform implementations persist it

dlVars == <<localDir, out>>
cfgVars == <<srcTree, userFs>>
callVars == <<call, ret, log>>

----------------------------------------------------------------------------
(* Bounds *)

\* the longest binary content, in bytes
MaxLen == 2
\* the longest text of a `latest` resource, in characters
MaxText == 2

----------------------------------------------------------------------------
(* Files and byte contents *)

Byte == {0, 1}
Contents == UNION {[1..k -> Byte] : k \in 0..MaxLen}

NoFile == [exists |-> FALSE, data |-> <<>>]
File(d) == [exists |-> TRUE, data |-> d]

Whitespace == {" ", "\n"}
Chars == {"1"} \cup Whitespace
Texts == UNION {[1..k -> Chars] : k \in 0..MaxText}

\* str::trim: drop the leading and the trailing whitespace
RECURSIVE TrimStart(_)
TrimStart(s) ==
    IF s # <<>> /\ Head(s) \in Whitespace THEN TrimStart(Tail(s)) ELSE s

RECURSIVE TrimEnd(_)
TrimEnd(s) ==
    IF s # <<>> /\ s[Len(s)] \in Whitespace
    THEN TrimEnd(SubSeq(s, 1, Len(s) - 1))
    ELSE s

Trim(s) == TrimEnd(TrimStart(s))

\* DownloadSource
Remote == "Remote"
LocalFallback == "LocalFallback"

Ok(v, src) == [ok |-> TRUE, value |-> v, source |-> src, err |-> ""]
Err(msg) == [ok |-> FALSE, value |-> <<>>, source |-> "", err |-> msg]

----------------------------------------------------------------------------
(* ChecksumVerifier *)

\* Sha256 then hex::encode, as a digest that is injective on the bounded
\* contents: two contents of the model never collide, as SHA-256 contents
\* found in practice do not.  The digest is a number standing for the hex text.
RECURSIVE Sha256Hex(_)
Sha256Hex(c) ==
    IF c = <<>> THEN 1 ELSE 2 * Sha256Hex(SubSeq(c, 1, Len(c) - 1)) + c[Len(c)]

Digests == {Sha256Hex(c) : c \in Contents}
\* an expected string that is the lower-case hex digest of no content
NoDigest == 0
Checksums == Digests \cup {NoDigest}

\* A faulty variant of verify_checksum: the digest is computed but never compared
verify_checksum_uncompared(file, expected) ==
    IF ~file.exists
    THEN [ok |-> FALSE, val |-> FALSE]
    ELSE [ok |-> TRUE, val |-> TRUE]

\* verify_checksum: Err when the file cannot be opened, else whether the
\* digest of the whole content equals the expected string
verify_checksum(file, expected) ==
    IF ~file.exists
    THEN [ok |-> FALSE, val |-> FALSE]
    ELSE [ok |-> TRUE, val |-> (Sha256Hex(file.data) = expected)]

\* The read loop of verify_checksum, read by read.  BufferLen stands for
\* the 8192 bytes of the buffer; a read fills the front of the buffer with
\* the next n bytes of the file and leaves the rest of it as it was.
BufferLen == 2

\* Sha256::new() and update: the digest of the bytes fed so far
Sha256New == Sha256Hex(<<>>)

RECURSIVE Sha256Update(_, _)
Sha256Update(h, bytes) ==
    IF bytes = <<>> THEN h
    ELSE Sha256Update(2 * h + Head(bytes), Tail(bytes))

\* A faulty variant of read_slice: the whole buffer is fed to the hasher
read_slice_whole_buffer(buffer, bytes_read) == buffer

\* &buffer[..bytes_read]
read_slice(buffer, bytes_read) == SubSeq(buffer, 1, bytes_read)

\* The loop from the i-th read on: `reads` holds the number of bytes each
\* read returns before the read that returns 0; pos bytes are consumed
RECURSIVE read_loop(_, _, _, _, _, _)
read_loop(data, reads, i, pos, buffer, hasher) ==
    IF i > Len(reads)
    THEN hasher
    ELSE LET bytes_read == reads[i]
             filled == [k \in 1..BufferLen |->
                            IF k <= bytes_read THEN data[pos + k] ELSE buffer[k]]
         IN  read_loop(data, reads, i + 1, pos + bytes_read, filled,
                       Sha256Update(hasher, read_slice(filled, bytes_read)))

\* verify_checksum with its reads spelled out: the result and the file as
\* the call leaves it
verify_checksum_chunked(file, expected, reads) ==
    IF ~file.exists
    THEN [ok |-> FALSE, val |-> FALSE, file |-> file]
    ELSE LET actual == read_loop(file.data, reads, 1, 0,
                                 [k \in 1..BufferLen |-> 0], Sha256New)
         IN  [ok |-> TRUE, val |-> (actual = expected), file |-> file]

----------------------------------------------------------------------------
(* Structured documents (serde_json::Value) and their texts *)

Null == [t |-> "null", n |-> 0, o |-> <<>>]
Num(n) == [t |-> "num", n |-> n, o |-> <<>>]
Str(n) == [t |-> "str", n |-> n, o |-> <<>>]
Obj(f) == [t |-> "obj", n |-> 0, o |-> f]

\* The text of a file that is to hold a document: either no JSON at all, or
\* the JSON text of `val` written in some layout (the same value has more
\* than one text).
Garbage == [valid |-> FALSE, layout |-> "raw", val |-> Null]
JsonText(layout, v) == [valid |-> TRUE, layout |-> layout, val |-> v]

NoDoc == [exists |-> FALSE, data |-> Garbage]

\* serde_json::from_str / Response::json
from_str(text) ==
    IF text.valid THEN [ok |-> TRUE, val |-> text.val]
    ELSE [ok |-> FALSE, val |-> Null]

\* serde_json::to_string_pretty
to_string_pretty(v) == JsonText("pretty", v)

\* Value's Index: Null when the value is no object or has no such key
Index(v, key) ==
    IF v.t = "obj" /\ key \in DOMAIN v.o THEN v.o[key] ELSE Null

----------------------------------------------------------------------------
(* The platform of the build (src/src/platform/mod.rs) *)

get_platform_id == "linux-x64"
get_binary_name == "claude"
PlatformIds == {"linux-x64", "darwin-arm64"}

ManifestFor(platform, checksum) ==
    Obj(("platforms" :> Obj((platform :> Obj(("checksum" :> Str(checksum)))))))

ManifestVals ==
    {ManifestFor(p, c) : p \in PlatformIds, c \in {Sha256Hex(<<>>), NoDigest}}
        \cup {Obj(<<>>), Num(1)}

----------------------------------------------------------------------------
(* VersionResolver *)

\* What the GET of <root>/latest may do
LatestResponses ==
    {[kind |-> k, body |-> <<>>] : k \in {"transport_error", "http_error", "body_error"}}
        \cup {[kind |-> "success", body |-> t] : t \in Texts}

\* get_latest_version(local_dir), given the remote's response and whether
\* the local file can be read
get_latest_version(ld, remote, readable) ==
    IF remote.kind = "success"
    THEN [ret |-> Ok(Trim(remote.body), Remote), log |-> <<"get">>]
    ELSE IF remote.kind = "body_error"
    THEN [ret |-> Err("remote body"), log |-> <<"get">>]
    ELSE IF ld.latest.exists
    THEN IF readable
         THEN [ret |-> Ok(Trim(ld.latest.data), LocalFallback),
               log |-> <<"get", "read_local">>]
         ELSE [ret |-> Err("Failed to read local version file"),
               log |-> <<"get", "read_local">>]
    ELSE [ret |-> Err("Could not get version from remote or local fallback"),
          log |-> <<"get">>]

----------------------------------------------------------------------------
(* ManifestResolver *)

\* What the GET of <root>/<version>/manifest.json may do: the body of a
\* successful response is a text, which may be no JSON
ManifestResponses ==
    {[kind |-> k, body |-> Garbage] : k \in {"transport_error", "http_error", "success"}}
        \cup {[kind |-> "success", body |-> JsonText("compact", v)] : v \in ManifestVals}

\* local_dir/<version>/manifest.json
LocalManifest(ld, version) ==
    IF version = ld.release THEN ld.manifest ELSE NoDoc

\* A faulty variant of get_manifest: the local manifest is never consulted
get_manifest_remote_only(version, ld, remote) ==
    IF remote.kind = "success"
    THEN LET j == from_str(remote.body)
         IN  IF j.ok
             THEN [ret |-> Ok(j.val, Remote), log |-> <<"get">>]
             ELSE [ret |-> Err("remote json"), log |-> <<"get">>]
    ELSE [ret |-> Err("Could not get manifest from remote or local fallback"),
          log |-> <<"get">>]

get_manifest(version, ld, remote) ==
    IF remote.kind = "success"
    THEN LET j == from_str(remote.body)
         IN  IF j.ok
             THEN [ret |-> Ok(j.val, Remote), log |-> <<"get">>]
             ELSE [ret |-> Err("remote json"), log |-> <<"get">>]
    ELSE LET f == LocalManifest(ld, version)
         IN  IF f.exists
             THEN LET j == from_str(f.data)
                  IN  IF j.ok
                      THEN [ret |-> Ok(j.val, LocalFallback),
                            log |-> <<"get", "read_local">>]
                      ELSE [ret |-> Err("local json"),
                            log |-> <<"get", "read_local">>]
             ELSE [ret |-> Err("Could not get manifest from remote or local fallback"),
                   log |-> <<"get">>]

----------------------------------------------------------------------------
(* ArtifactFetcher *)

\* What the GET of <root>/<version>/<platform>/<binary_name> may do: fail
\* before a response, answer with a non-success status, break off after the
\* bytes `data` were written to the output, or deliver the body `data`
BinaryResponses ==
    {[kind |-> k, data |-> <<>>] : k \in {"transport_error", "http_error"}}
        \cup {[kind |-> "read_error", data |-> w] : w \in {c \in Contents : Len(c) < MaxLen}}
        \cup {[kind |-> "complete", data |-> c] : c \in Contents}

\* download_from_url: the output is created only after a successful status,
\* and holds what was written when the body breaks off
download_from_url(remote, output) ==
    CASE remote.kind = "transport_error" ->
            [ok |-> FALSE, out |-> output, log |-> <<"get">>]
      [] remote.kind = "http_error" ->
            [ok |-> FALSE, out |-> output, log |-> <<"get">>]
      [] remote.kind = "read_error" ->
            [ok |-> FALSE, out |-> File(remote.data), log |-> <<"get", "create">>]
      [] remote.kind = "complete" ->
            [ok |-> TRUE, out |-> File(remote.data), log |-> <<"get", "create">>]

----------------------------------------------------------------------------
(* BinaryAcquirer *)

Min(a, b) == IF a < b THEN a ELSE b

\* What std::fs::copy may do: succeed, fail before the destination is
\* touched, or fail after the destination was created and n bytes (at most
\* the whole source) were written
CopyOutcomes ==
    {[kind |-> k, n |-> 0] : k \in {"ok", "open_error"}}
        \cup {[kind |-> "write_error", n |-> k] : k \in 0..MaxLen}

fs_copy(src, dst, outcome) ==
    CASE outcome.kind = "ok" -> [ok |-> TRUE, out |-> File(src.data)]
      [] outcome.kind = "open_error" -> [ok |-> FALSE, out |-> dst]
      [] outcome.kind = "write_error" ->
            [ok |-> FALSE,
             out |-> File(SubSeq(src.data, 1, Min(outcome.n, Len(src.data))))]

\* A faulty variant of remove_file: the file is left in place
remove_file_kept(f) == f

\* std::fs::remove_file(..).ok()
remove_file(f) == NoFile

\* local_dir/<version>/<platform>/<binary_name>
LocalBinary(ld, version, platform, binary_name) ==
    IF version = ld.release /\ platform = ld.platform /\ binary_name = get_binary_name
    THEN ld.binary
    ELSE NoFile

\* The local fallback of download_binary (lines 120-138)
local_fallback(version, platform, binary_name, ld, output, expected, copy, log0) ==
    LET local == LocalBinary(ld, version, platform, binary_name)
    IN  IF local.exists
        THEN LET c == fs_copy(local, output, copy)
             IN  IF ~c.ok
                 THEN [ret |-> Err("Failed to copy local binary"),
                       out |-> c.out, log |-> log0 \o <<"copy">>]
                 ELSE LET v == verify_checksum(c.out, expected)
                      IN  IF ~v.ok
                          THEN [ret |-> Err("io"), out |-> c.out,
                                log |-> log0 \o <<"copy", "verify">>]
                          ELSE IF v.val
                          THEN [ret |-> Ok(<<>>, LocalFallback), out |-> c.out,
                                log |-> log0 \o <<"copy", "verify">>]
                          ELSE [ret |-> Err("Local fallback checksum verification failed"),
                                out |-> remove_file(c.out),
                                log |-> log0 \o <<"copy", "verify", "remove">>]
        ELSE [ret |-> Err("Remote unavailable and no local fallback found"),
              out |-> output, log |-> log0]

\* A faulty variant of download_binary: a checksum mismatch of the remote download is
\* fatal
download_binary_fatal_mismatch(version, platform, binary_name, ld, output, expected, remote, copy) ==
    LET r == download_from_url(remote, output)
    IN  IF r.ok
        THEN LET v == verify_checksum(r.out, expected)
             IN  IF ~v.ok
                 THEN [ret |-> Err("io"), out |-> r.out, log |-> r.log \o <<"verify">>]
                 ELSE IF v.val
                 THEN [ret |-> Ok(<<>>, Remote), out |-> r.out,
                       log |-> r.log \o <<"verify">>]
                 ELSE [ret |-> Err("Checksum verification failed"),
                       out |-> remove_file(r.out),
                       log |-> r.log \o <<"verify", "remove">>]
        ELSE local_fallback(version, platform, binary_name, ld, r.out, expected,
                            copy, r.log)

download_binary(version, platform, binary_name, ld, output, expected, remote, copy) ==
    LET r == download_from_url(remote, output)
    IN  IF r.ok
        THEN LET v == verify_checksum(r.out, expected)
             IN  IF ~v.ok
                 THEN [ret |-> Err("io"), out |-> r.out, log |-> r.log \o <<"verify">>]
                 ELSE IF v.val
                 THEN [ret |-> Ok(<<>>, Remote), out |-> r.out,
                       log |-> r.log \o <<"verify">>]
                 ELSE local_fallback(version, platform, binary_name, ld,
                                     remove_file(r.out), expected, copy,
                                     r.log \o <<"verify", "remove">>)
        ELSE local_fallback(version, platform, binary_name, ld, r.out, expected,
                            copy, r.log)

----------------------------------------------------------------------------
(* ConfigMerger *)

\* A faulty variant of insert: an object already under the key is merged into, key
\* by key, instead of being replaced
insert_deep(m, key, value) ==
    [x \in DOMAIN m \cup {key} |->
        IF x # key THEN m[x]
        ELSE IF key \in DOMAIN m /\ m[key].t = "obj" /\ value.t = "obj"
        THEN Obj([y \in DOMAIN m[key].o \cup DOMAIN value.o |->
                    IF y \in DOMAIN value.o THEN value.o[y] ELSE m[key].o[y]])
        ELSE value]

\* Map::insert(key, value): the value under the key is replaced
insert(m, key, value) ==
    [x \in DOMAIN m \cup {key} |-> IF x = key THEN value ELSE m[x]]

\* for (key, value) in source_obj { dest_obj.insert(key, value); }
RECURSIVE insert_all(_, _, _)
insert_all(source_obj, dest_obj, keys) ==
    IF keys = {} THEN dest_obj
    ELSE LET key == CHOOSE k \in keys : TRUE
         IN  insert_all(source_obj, insert(dest_obj, key, source_obj[key]),
                        keys \ {key})

\* A faulty variant of merge_json_settings: a destination that does not
\* parse is overwritten with the source document
merge_json_settings_overwrite_unparsable(source, dest) ==
    LET source_json == from_str(source.data)
        dest_json == from_str(dest.data)
    IN  IF ~source_json.ok
        THEN [ret |-> Err("Failed to parse source settings JSON"), dest |-> dest,
              log |-> <<"read", "read", "parse">>]
        ELSE IF ~dest_json.ok
        THEN [ret |-> Ok(<<>>, ""), dest |-> File(to_string_pretty(source_json.val)),
              log |-> <<"read", "read", "parse", "parse", "write">>]
        ELSE LET merged ==
                    IF source_json.val.t = "obj" /\ dest_json.val.t = "obj"
                    THEN Obj(insert_all(source_json.val.o, dest_json.val.o,
                                        DOMAIN source_json.val.o))
                    ELSE dest_json.val
             IN  [ret |-> Ok(<<>>, ""), dest |-> File(to_string_pretty(merged)),
                  log |-> <<"read", "read", "parse", "parse", "write">>]

\* A faulty variant of merge_json_settings: when the roots are not both
\* objects the source document replaces the destination's
merge_json_settings_replace_mismatch(source, dest) ==
    LET source_json == from_str(source.data)
        dest_json == from_str(dest.data)
    IN  IF ~source_json.ok
        THEN [ret |-> Err("Failed to parse source settings JSON"), dest |-> dest,
              log |-> <<"read", "read", "parse">>]
        ELSE IF ~dest_json.ok
        THEN [ret |-> Err("Failed to parse destination settings JSON"), dest |-> dest,
              log |-> <<"read", "read", "parse", "parse">>]
        ELSE LET merged ==
                    IF source_json.val.t = "obj" /\ dest_json.val.t = "obj"
                    THEN Obj(insert_all(source_json.val.o, dest_json.val.o,
                                        DOMAIN source_json.val.o))
                    ELSE source_json.val
             IN  [ret |-> Ok(<<>>, ""), dest |-> File(to_string_pretty(merged)),
                  log |-> <<"read", "read", "parse", "parse", "write">>]

\* merge_json_settings(source, dest): both files exist.  Nothing is written
\* unless both texts parse; the destination is then written back in the
\* pretty layout, merged when both roots are objects
merge_json_settings(source, dest) ==
    LET source_json == from_str(source.data)
        dest_json == from_str(dest.data)
    IN  IF ~source_json.ok
        THEN [ret |-> Err("Failed to parse source settings JSON"), dest |-> dest,
              log |-> <<"read", "read", "parse">>]
        ELSE IF ~dest_json.ok
        THEN [ret |-> Err("Failed to parse destination settings JSON"), dest |-> dest,
              log |-> <<"read", "read", "parse", "parse">>]
        ELSE LET merged ==
                    IF source_json.val.t = "obj" /\ dest_json.val.t = "obj"
                    THEN Obj(insert_all(source_json.val.o, dest_json.val.o,
                                        DOMAIN source_json.val.o))
                    ELSE dest_json.val
             IN  [ret |-> Ok(<<>>, ""), dest |-> File(to_string_pretty(merged)),
                  log |-> <<"read", "read", "parse", "parse", "write">>]

\* A faulty variant of copy_doc: an empty document is created instead of a copy
copy_doc_placeholder(source) == File(JsonText("pretty", Obj(<<>>)))

\* std::fs::copy of a settings file: the destination gets the source's bytes
copy_doc(source) == File(source.data)

----------------------------------------------------------------------------
(* ConfigDeployer: the two settings documents *)

\* A faulty variant of deploy_claude_settings: an absent destination is written from
\* the parsed source instead of being copied
deploy_claude_settings_reserialized(src, d) ==
    IF ~src.claude.exists
    THEN [ret |-> Ok(<<>>, ""), dst |-> d, log |-> <<>>]
    ELSE LET d1 == [d EXCEPT !.claude_dir = TRUE]
         IN  IF d1.claude.exists
             THEN LET m == merge_json_settings(src.claude, d1.claude)
                  IN  [ret |-> m.ret, dst |-> [d1 EXCEPT !.claude = m.dest],
                       log |-> <<"create_dir">> \o m.log]
             ELSE LET j == from_str(src.claude.data)
                  IN  IF j.ok
                      THEN [ret |-> Ok(<<>>, ""),
                            dst |-> [d1 EXCEPT !.claude = File(to_string_pretty(j.val))],
                            log |-> <<"create_dir", "copy">>]
                      ELSE [ret |-> Err("Failed to parse source settings JSON"),
                            dst |-> d1, log |-> <<"create_dir", "copy">>]

\* deploy_claude_settings: <config_dir>/.claude/settings.json into
\* <claude_config_dir>/settings.json
deploy_claude_settings(src, d) ==
    IF ~src.claude.exists
    THEN [ret |-> Ok(<<>>, ""), dst |-> d, log |-> <<>>]
    ELSE LET d1 == [d EXCEPT !.claude_dir = TRUE]
         IN  IF d1.claude.exists
             THEN LET m == merge_json_settings(src.claude, d1.claude)
                  IN  [ret |-> m.ret, dst |-> [d1 EXCEPT !.claude = m.dest],
                       log |-> <<"create_dir">> \o m.log]
             ELSE [ret |-> Ok(<<>>, ""),
                   dst |-> [d1 EXCEPT !.claude = copy_doc(src.claude)],
                   log |-> <<"create_dir", "copy">>]

\* A faulty variant of vscode_source: the flat vscode-settings.json is
\* looked for first
vscode_source_flat_first(src) ==
    IF src.vscode_alt.exists THEN src.vscode_alt
    ELSE IF src.vscode_platform.exists THEN src.vscode_platform
    ELSE NoDoc

\* The source deploy_vscode_settings takes: the platform-specific path,
\* else the flat vscode-settings.json, else none
vscode_source(src) ==
    IF src.vscode_platform.exists THEN src.vscode_platform
    ELSE IF src.vscode_alt.exists THEN src.vscode_alt
    ELSE NoDoc

\* deploy_vscode_settings: the editor settings into
\* <vscode_settings_dir>/settings.json
deploy_vscode_settings(src, d) ==
    LET source == vscode_source(src)
    IN  IF ~source.exists
        THEN [ret |-> Ok(<<>>, ""), dst |-> d, log |-> <<>>]
        ELSE LET d1 == [d EXCEPT !.vscode_dir = TRUE]
             IN  IF d1.vscode.exists
                 THEN LET m == merge_json_settings(source, d1.vscode)
                      IN  [ret |-> m.ret, dst |-> [d1 EXCEPT !.vscode = m.dest],
                           log |-> <<"create_dir">> \o m.log]
                 ELSE [ret |-> Ok(<<>>, ""),
                       dst |-> [d1 EXCEPT !.vscode = copy_doc(source)],
                       log |-> <<"create_dir", "copy">>]

\* No source tree and nothing deployed
EmptySrcTree == [claude |-> NoDoc, vscode_platform |-> NoDoc, vscode_alt |-> NoDoc]
EmptyDst ==
    [claude_dir |-> FALSE, claude |-> NoDoc, vscode_dir |-> FALSE, vscode |-> NoDoc]

----------------------------------------------------------------------------
(* File names and directories *)

\* A file name as the sequence of its pieces: a "." or a "_" is a piece of
\* its own, and no other piece holds a "."
VsixA == <<"a", ".", "vsix">>
VsixB == <<"b", ".", "vsix">>
Readme == <<"readme", ".", "txt">>
Zscaler == <<"ZscalerRootCertificate-2048-SHA256", ".", "crt">>
ZscalerAlt == <<"zscaler-root", ".", "crt">>
ResourceFork == <<".", "_", "zscaler-root", ".", "crt">>

\* Path::extension of a file name: none when the name has no ".", or when
\* its only "." is its first character; else what follows the last "."
NoExtension == [some |-> FALSE, ext |-> <<>>]
extension(name) ==
    LET dots == {i \in 1..Len(name) : name[i] = "."}
    IN  IF dots = {} THEN NoExtension
        ELSE LET last == CHOOSE i \in dots : \A j \in dots : j <= i
             IN  IF last = 1 THEN NoExtension
                 ELSE [some |-> TRUE, ext |-> SubSeq(name, last + 1, Len(name))]

\* A faulty variant of starts_with_fork: no name counts as a resource fork
starts_with_fork_never(name) == FALSE

\* file_name().starts_with("._")
starts_with_fork(name) == Len(name) >= 2 /\ name[1] = "." /\ name[2] = "_"

\* A directory of the source tree: whether it exists and the entries
\* read_dir yields, in the order it yields them
NoDir == [exists |-> FALSE, entries |-> <<>>]
Dir(entries) == [exists |-> TRUE, entries |-> entries]
Entry(name, data) == [name |-> name, data |-> data]

----------------------------------------------------------------------------
(* The platform collaborators (src/src/platform/mod.rs): what they return
   is the platform's matter; the Linux build fails every one of them *)

PlatformOutcomes == {"ok", "err"}

\* The user's environment the collaborators write: the persistent
\* variables, the directories registered on PATH, the trusted certificates
EmptyEnv == [vars |-> <<>>, path |-> {}, trusted |-> {}]

set_user_env_var(name, value, e, outcome) ==
    IF outcome = "ok"
    THEN [ret |-> Ok(<<>>, ""), env |-> [e EXCEPT !.vars = (name :> value) @@ e.vars]]
    ELSE [ret |-> Err("set_user_env_var"), env |-> e]

add_to_path(dir, e, outcome) ==
    IF outcome = "ok"
    THEN [ret |-> Ok(<<>>, ""), env |-> [e EXCEPT !.path = e.path \cup {dir}]]
    ELSE [ret |-> Err("add_to_path"), env |-> e]

import_certificate(cert, e, outcome) ==
    IF outcome = "ok"
    THEN [ret |-> Ok(<<>>, ""), env |-> [e EXCEPT !.trusted = e.trusted \cup {cert}]]
    ELSE [ret |-> Err("import_certificate"), env |-> e]

----------------------------------------------------------------------------
(* The extension packages *)

\* What running `code --install-extension <path>` may do
CliOutcomes == {"ok", "nonzero", "launch_failed"}

\* The loop of install_vsix_extensions from entry i on: `cli` gives the
\* outcome of the CLI for the i-th entry, `invoked` the packages the CLI
\* was launched for so far
RECURSIVE vsix_loop(_, _, _, _)
vsix_loop(entries, cli, i, invoked) ==
    IF i > Len(entries)
    THEN [ret |-> Ok(<<>>, ""), log |-> invoked]
    ELSE IF extension(entries[i].name) = [some |-> TRUE, ext |-> <<"vsix">>]
    THEN IF cli[i] = "launch_failed"
         THEN [ret |-> Err("Failed to run VS Code CLI"), log |-> invoked]
         ELSE vsix_loop(entries, cli, i + 1, Append(invoked, entries[i].name))
    ELSE vsix_loop(entries, cli, i + 1, invoked)

\* install_vsix_extensions(vsix_dir): the log holds the packages for which
\* the CLI ran
install_vsix_extensions(dir, cli) ==
    IF ~dir.exists
    THEN [ret |-> Ok(<<>>, ""), log |-> <<>>]
    ELSE vsix_loop(dir.entries, cli, 1, <<>>)

----------------------------------------------------------------------------
(* ConfigDeployer: certificates, environment, the whole deployment *)

\* The platform's source tree beyond the two settings documents: whether
\* <local_dir>/<PLATFORM>/USER-DIRECTORY exists, and its two certificate
\* directories
EmptyCfgTree == [root |-> FALSE, continue_certs |-> NoDir, certs |-> NoDir]

\* The destination certificate directory: whether it exists and the
\* content of each file in it
NoCertsDir == [exists |-> FALSE, files |-> <<>>]

\* What the filesystem and the platform do to one deployment: whether
\* create_dir_all of the certificate directory succeeds, the certificates
\* whose copy fails, the certificates whose import fails, and the outcome
\* of set_user_env_var
IoOk == [create_dir |-> TRUE, copy_fails |-> {}, import_fails |-> {}, set_env |-> "ok"]

\* A faulty variant of certs_loop: the error of import_certificate is
\* returned
RECURSIVE certs_loop_import_fatal(_, _, _, _, _)
certs_loop_import_fatal(entries, cd, e, io, i) ==
    IF i > Len(entries)
    THEN [ret |-> Ok(<<>>, ""), certs |-> cd, env |-> e]
    ELSE LET name == entries[i].name
         IN  IF starts_with_fork(name)
             THEN certs_loop_import_fatal(entries, cd, e, io, i + 1)
             ELSE IF extension(name) = [some |-> TRUE, ext |-> <<"crt">>]
             THEN IF name \in io.copy_fails
                  THEN [ret |-> Err("Failed to copy certificate"), certs |-> cd, env |-> e]
                  ELSE LET cd1 == [cd EXCEPT !.files = (name :> entries[i].data) @@ cd.files]
                           imp == import_certificate(name, e,
                                    IF name \in io.import_fails THEN "err" ELSE "ok")
                       IN  IF ~imp.ret.ok
                           THEN [ret |-> imp.ret, certs |-> cd1, env |-> imp.env]
                           ELSE certs_loop_import_fatal(entries, cd1, imp.env, io, i + 1)
             ELSE certs_loop_import_fatal(entries, cd, e, io, i + 1)

\* The loop over one certificate source directory, from entry i on
RECURSIVE certs_loop(_, _, _, _, _)
certs_loop(entries, cd, e, io, i) ==
    IF i > Len(entries)
    THEN [ret |-> Ok(<<>>, ""), certs |-> cd, env |-> e]
    ELSE LET name == entries[i].name
         IN  IF starts_with_fork(name)
             THEN certs_loop(entries, cd, e, io, i + 1)
             ELSE IF extension(name) = [some |-> TRUE, ext |-> <<"crt">>]
             THEN IF name \in io.copy_fails
                  THEN [ret |-> Err("Failed to copy certificate"), certs |-> cd, env |-> e]
                  ELSE LET cd1 == [cd EXCEPT !.files = (name :> entries[i].data) @@ cd.files]
                           imp == import_certificate(name, e,
                                    IF name \in io.import_fails THEN "err" ELSE "ok")
                       IN  certs_loop(entries, cd1, imp.env, io, i + 1)
             ELSE certs_loop(entries, cd, e, io, i + 1)

\* One certificate source directory of deploy_certificates
certs_from(source, cd, e, io) ==
    IF ~source.exists
    THEN [ret |-> Ok(<<>>, ""), certs |-> cd, env |-> e]
    ELSE IF ~cd.exists /\ ~io.create_dir
    THEN [ret |-> Err("Failed to create certs directory"), certs |-> cd, env |-> e]
    ELSE certs_loop(source.entries, [cd EXCEPT !.exists = TRUE], e, io, 1)

\* deploy_certificates: <config_dir>/.continue/certs, then <config_dir>/certs
deploy_certificates(cfg, cd, e, io) ==
    LET first == certs_from(cfg.continue_certs, cd, e, io)
    IN  IF ~first.ret.ok THEN first
        ELSE certs_from(cfg.certs, first.certs, first.env, io)

\* A faulty variant of configure_environment: zscaler-root.crt is looked
\* for first
configure_environment_alt_first(cd, e, outcome) ==
    LET cert_path ==
            IF cd.exists /\ ZscalerAlt \in DOMAIN cd.files THEN <<ZscalerAlt>>
            ELSE IF cd.exists /\ Zscaler \in DOMAIN cd.files THEN <<Zscaler>>
            ELSE <<>>
    IN  IF cert_path # <<>>
        THEN set_user_env_var("NODE_EXTRA_CA_CERTS", cert_path[1], e, outcome)
        ELSE [ret |-> Ok(<<>>, ""), env |-> e]

\* configure_environment: NODE_EXTRA_CA_CERTS names the first known
\* certificate found in the destination certificate directory
configure_environment(cd, e, outcome) ==
    LET cert_path ==
            IF cd.exists /\ Zscaler \in DOMAIN cd.files THEN <<Zscaler>>
            ELSE IF cd.exists /\ ZscalerAlt \in DOMAIN cd.files THEN <<ZscalerAlt>>
            ELSE <<>>
    IN  IF cert_path # <<>>
        THEN set_user_env_var("NODE_EXTRA_CA_CERTS", cert_path[1], e, outcome)
        ELSE [ret |-> Ok(<<>>, ""), env |-> e]

\* A faulty variant of deploy_configs: the steps run although the source
\* root is missing
deploy_configs_root_unchecked(cfg, src, d, cd, e, io) ==
    LET a == deploy_claude_settings(src, d)
        b == deploy_certificates(cfg, cd, e, io)
        c == deploy_vscode_settings(src, a.dst)
        g == configure_environment(b.certs, b.env, io.set_env)
    IN  IF ~a.ret.ok
        THEN [ret |-> a.ret, dst |-> a.dst, certs |-> cd, env |-> e,
              log |-> <<"deploy_claude_settings">>]
        ELSE IF ~b.ret.ok
        THEN [ret |-> b.ret, dst |-> a.dst, certs |-> b.certs, env |-> b.env,
              log |-> <<"deploy_claude_settings", "deploy_certificates">>]
        ELSE IF ~c.ret.ok
        THEN [ret |-> c.ret, dst |-> c.dst, certs |-> b.certs, env |-> b.env,
              log |-> <<"deploy_claude_settings", "deploy_certificates",
                        "deploy_vscode_settings">>]
        ELSE [ret |-> g.ret, dst |-> c.dst, certs |-> b.certs, env |-> g.env,
              log |-> <<"deploy_claude_settings", "deploy_certificates",
                        "deploy_vscode_settings", "configure_environment">>]

\* deploy_configs(local_dir, paths): the four steps in order, the first
\* error returned at once
deploy_configs(cfg, src, d, cd, e, io) ==
    IF ~cfg.root
    THEN [ret |-> Ok(<<>>, ""), dst |-> d, certs |-> cd, env |-> e, log |-> <<>>]
    ELSE LET a == deploy_claude_settings(src, d)
             b == deploy_certificates(cfg, cd, e, io)
             c == deploy_vscode_settings(src, a.dst)
             g == configure_environment(b.certs, b.env, io.set_env)
         IN  IF ~a.ret.ok
             THEN [ret |-> a.ret, dst |-> a.dst, certs |-> cd, env |-> e,
                   log |-> <<"deploy_claude_settings">>]
             ELSE IF ~b.ret.ok
             THEN [ret |-> b.ret, dst |-> a.dst, certs |-> b.certs, env |-> b.env,
                   log |-> <<"deploy_claude_settings", "deploy_certificates">>]
             ELSE IF ~c.ret.ok
             THEN [ret |-> c.ret, dst |-> c.dst, certs |-> b.certs, env |-> b.env,
                   log |-> <<"deploy_claude_settings", "deploy_certificates",
                             "deploy_vscode_settings">>]
             ELSE [ret |-> g.ret, dst |-> c.dst, certs |-> b.certs, env |-> g.env,
                   log |-> <<"deploy_claude_settings", "deploy_certificates",
                             "deploy_vscode_settings", "configure_environment">>]

----------------------------------------------------------------------------
(* InstallOrchestrator: ClaudeCode::install and ClaudeCode::uninstall
   (src/src/tools/claude_code.rs) *)

\* What the tool-config directory <home>/.claude holds besides
\* settings.json: the install directory bin with the installed binary and
\* another file of the vendor's, the downloads directory, and a file of the
\* user's
EmptyHome ==
    [bin_dir |-> FALSE, binary |-> NoFile, bin_other |-> NoFile,
     downloads_dir |-> FALSE, user_data |-> NoFile]

\* <home>/.claude/bin, the directory install registers on PATH
get_install_dir == "home/.claude/bin"

\* The steps of install in the order of the code
StepOrder ==
    <<"ResolveVersion", "ResolveManifest", "AcquireBinary", "RunVendorInstaller",
      "InstallExtensions", "DeployConfigs", "RegisterPath">>

StepIndex(step) == CHOOSE i \in 1..Len(StepOrder) : StepOrder[i] = step

\* A faulty variant of after: an error of PATH registration is returned
after_fatal_register_path(step, ok) ==
    IF ~ok THEN "Failed"
    ELSE IF step = "RegisterPath" THEN "Done"
    ELSE StepOrder[StepIndex(step) + 1]

\* A faulty variant of after: the error of a step is dropped and the next
\* step runs
after_error_dropped(step, ok) ==
    IF step = "RegisterPath" THEN "Done"
    ELSE StepOrder[StepIndex(step) + 1]

\* Where install goes after a step: every step but the last returns its
\* error with `?`; the result of add_to_path is only printed
after(step, ok) ==
    IF step = "RegisterPath" THEN "Done"
    ELSE IF ok THEN StepOrder[StepIndex(step) + 1]
    ELSE "Failed"

\* A faulty variant of platform_checksum: a manifest without the entry
\* yields the empty checksum
platform_checksum_defaulted(manifest) ==
    LET v == Index(Index(Index(manifest, "platforms"), get_platform_id), "checksum")
    IN  IF v.t = "str" THEN Ok(v.n, "") ELSE Ok(NoDigest, "")

\* manifest["platforms"][platform_id]["checksum"].as_str().ok_or_else(..)
platform_checksum(manifest) ==
    LET v == Index(Index(Index(manifest, "platforms"), get_platform_id), "checksum")
    IN  IF v.t = "str" THEN Ok(v.n, "") ELSE Err("Platform not found in manifest")

\* Step 2 of install: the manifest, then the checksum of the platform
resolve_manifest(version, ld, remote) ==
    LET m == get_manifest(version, ld, remote)
    IN  IF ~m.ret.ok
        THEN [ret |-> m.ret, manifest |-> Null, log |-> <<"get_manifest">>]
        ELSE [ret |-> platform_checksum(m.ret.value), manifest |-> m.ret.value,
              log |-> <<"get_manifest", "checksum">>]

\* A faulty variant of acquire_binary: the result of download_binary is
\* not looked at
acquire_binary_unchecked(version, checksum, ld, h, output, mkdir, remote, copy, chmod) ==
    LET d == download_binary(version, get_platform_id, get_binary_name, ld,
                             output, checksum, remote, copy)
    IN  [ret |-> Ok(<<>>, ""), out |-> d.out,
         home |-> [h EXCEPT !.downloads_dir = TRUE],
         log |-> <<"create_dir", "download_binary", "chmod">>]

\* Steps 3 and 4 of install: the downloads directory, download_binary to
\* <downloads>/claude-<version>-<platform>, and the executable bit
acquire_binary(version, checksum, ld, h, output, mkdir, remote, copy, chmod) ==
    IF ~h.downloads_dir /\ ~mkdir
    THEN [ret |-> Err("create_dir_all"), out |-> output, home |-> h,
          log |-> <<"create_dir">>]
    ELSE LET h1 == [h EXCEPT !.downloads_dir = TRUE]
             d == download_binary(version, get_platform_id, get_binary_name, ld,
                                  output, checksum, remote, copy)
         IN  IF ~d.ret.ok
             THEN [ret |-> d.ret, out |-> d.out, home |-> h1,
                   log |-> <<"create_dir", "download_binary">>]
             ELSE IF ~chmod
             THEN [ret |-> Err("set_permissions"), out |-> d.out, home |-> h1,
                   log |-> <<"create_dir", "download_binary", "chmod">>]
             ELSE [ret |-> Ok(<<>>, d.ret.source), out |-> d.out, home |-> h1,
                   log |-> <<"create_dir", "download_binary", "chmod">>]

\* What launching the vendor binary with one argument may do
VendorOutcomes == {"ok", "nonzero", "launch_failed"}

\* Step 5 of install: `<temp_binary> install`; the vendor's installer puts
\* the binary into the install directory, then the temp binary is removed
run_vendor_installer(output, h, vendor) ==
    CASE vendor = "launch_failed" ->
            [ret |-> Err("Failed to run claude install"), out |-> output, home |-> h,
             log |-> <<"launch">>]
      [] vendor = "nonzero" ->
            [ret |-> Err("Claude install failed"), out |-> output, home |-> h,
             log |-> <<"launch">>]
      [] vendor = "ok" ->
            [ret |-> Ok(<<>>, ""), out |-> remove_file(output),
             home |-> [h EXCEPT !.bin_dir = TRUE, !.binary = File(output.data)],
             log |-> <<"launch", "remove">>]

\* What std::fs::remove_dir_all(..).ok() may do
RemoveOutcomes == {"ok", "err"}

\* A faulty variant of manual_cleanup: the whole tool-config directory is
\* removed
manual_cleanup_whole_dir(h, d, rm) ==
    [home |-> EmptyHome, dst |-> [d EXCEPT !.claude_dir = FALSE, !.claude = NoDoc],
     log |-> <<"remove_file", "remove_dir_all">>]

\* The manual cleanup of uninstall: the binary, then <claude_config_dir>/bin
\* when the tool-config directory exists
manual_cleanup(h, d, rm) ==
    LET h1 == [h EXCEPT !.binary = remove_file(h.binary)]
    IN  IF d.claude_dir
        THEN [home |-> IF rm = "ok"
                       THEN [h1 EXCEPT !.bin_dir = FALSE, !.bin_other = NoFile]
                       ELSE h1,
              dst |-> d, log |-> <<"remove_file", "remove_dir_all">>]
        ELSE [home |-> h1, dst |-> d, log |-> <<"remove_file">>]

\* A faulty variant of uninstall: the manual cleanup runs whatever the
\* vendor's uninstaller returned
uninstall_always_cleanup(h, d, vendor, rm) ==
    IF h.binary.exists
    THEN LET m == manual_cleanup(h, d, rm)
         IN  [ret |-> Ok(<<>>, ""), home |-> m.home, dst |-> m.dst,
              log |-> <<"launch">> \o m.log]
    ELSE [ret |-> Ok(<<>>, ""), home |-> h, dst |-> d, log |-> <<>>]

\* uninstall: `<binary> uninstall` when the binary exists; the vendor's
\* uninstaller that succeeds has removed its binary
uninstall(h, d, vendor, rm) ==
    IF h.binary.exists
    THEN IF vendor = "ok"
         THEN [ret |-> Ok(<<>>, ""), home |-> [h EXCEPT !.binary = NoFile], dst |-> d,
               log |-> <<"launch">>]
         ELSE LET m == manual_cleanup(h, d, rm)
              IN  [ret |-> Ok(<<>>, ""), home |-> m.home, dst |-> m.dst,
                   log |-> <<"launch">> \o m.log]
    ELSE [ret |-> Ok(<<>>, ""), home |-> h, dst |-> d, log |-> <<>>]

\* A faulty variant of configure: the install directory is registered on
\* PATH as install does
configure_registers_path(vsix, cli, cfg, src, d, cd, e, io) ==
    LET v == install_vsix_extensions(vsix, cli)
        c == deploy_configs(cfg, src, d, cd, e, io)
    IN  IF ~v.ret.ok
        THEN [ret |-> v.ret, dst |-> d, certs |-> cd, env |-> e,
              log |-> <<"install_vsix_extensions">>]
        ELSE [ret |-> c.ret, dst |-> c.dst, certs |-> c.certs,
              env |-> add_to_path(get_install_dir, c.env, "ok").env,
              log |-> <<"install_vsix_extensions", "deploy_configs">>]

\* configure: the extension packages, then the configuration
configure(vsix, cli, cfg, src, d, cd, e, io) ==
    LET v == install_vsix_extensions(vsix, cli)
        c == deploy_configs(cfg, src, d, cd, e, io)
    IN  IF ~v.ret.ok
        THEN [ret |-> v.ret, dst |-> d, certs |-> cd, env |-> e,
              log |-> <<"install_vsix_extensions">>]
        ELSE [ret |-> c.ret, dst |-> c.dst, certs |-> c.certs, env |-> c.env,
              log |-> <<"install_vsix_extensions", "deploy_configs">>]

----------------------------------------------------------------------------
(* The platform implementations of the environment mutation: the shell
   config file (src/src/platform/macos.rs) and the registry
   (src/src/platform/windows.rs) *)

\* The text of a shell config file, as the sequence of its pieces.  A piece
\* is a line feed, a carriage return, a blank, the text `export <name>=`,
\* the text `"<value>"`, the text `"<dir>:$PATH"`, a text that holds <dir>
\* inside a longer path, or a text that holds none of these.
Tok(k, a) == [k |-> k, a |-> a]
NL == Tok("nl", "")
CR == Tok("cr", "")
AddedBy == Tok("text", "# Added by code-assist")
ExportTok(name) == Tok("export", name)
Quoted(value) == Tok("quoted", value)
PathValue(dir) == Tok("pathval", dir)
LongerPath(dir) == Tok("longer", dir)

\* str::contains of the two patterns the code searches for
contains_export(text, name) == \E i \in 1..Len(text) : text[i] = ExportTok(name)
contains_dir(text, dir) ==
    \E i \in 1..Len(text) : text[i].k \in {"pathval", "longer"} /\ text[i].a = dir

\* str::lines: the text is split after every line feed, a carriage return
\* right before the line feed goes with it, and what follows the last line
\* feed is a line when it is not empty
strip_cr(line) ==
    IF line # <<>> /\ line[Len(line)] = CR THEN SubSeq(line, 1, Len(line) - 1) ELSE line

RECURSIVE lines_from(_, _, _)
lines_from(text, i, cur) ==
    IF i > Len(text)
    THEN IF cur = <<>> THEN <<>> ELSE <<cur>>
    ELSE IF text[i] = NL
    THEN <<strip_cr(cur)>> \o lines_from(text, i + 1, <<>>)
    ELSE lines_from(text, i + 1, Append(cur, text[i]))

lines(text) == lines_from(text, 1, <<>>)

\* str::trim_start
RECURSIVE trim_start(_)
trim_start(line) ==
    IF line # <<>> /\ Head(line).k \in {"sp", "cr"} THEN trim_start(Tail(line)) ELSE line

\* line.trim_start().starts_with("export <name>=")
starts_with_export(line, name) ==
    LET t == trim_start(line) IN t # <<>> /\ Head(t) = ExportTok(name)

\* updated.join("\n") + "\n"
RECURSIVE join_lines(_)
join_lines(ls) ==
    IF ls = <<>> THEN <<NL>>
    ELSE IF Len(ls) = 1 THEN Head(ls) \o <<NL>>
    ELSE Head(ls) \o <<NL>> \o join_lines(Tail(ls))

\* The shell config file the SHELL variable selects; an unset SHELL counts
\* as /bin/zsh
config_file(shell) ==
    IF shell \in {"unset", "/bin/zsh"} THEN ".zshrc"
    ELSE IF shell = "/bin/bash" THEN ".bash_profile"
    ELSE ".profile"

\* The user's persisted environment: the shell and the shell config files
\* (macOS), the value Path and the other values of HKCU\Environment
\* (Windows)
EmptyOsEnv ==
    [platform |-> "none", shell |-> "unset",
     files |-> [f \in {".zshrc", ".bash_profile", ".profile"} |-> NoFile],
     path |-> NoFile, values |-> <<>>]

\* read_to_string(&config_file).unwrap_or_default()
read_or_default(os) ==
    LET f == os.files[config_file(os.shell)]
    IN  IF f.exists THEN f.data ELSE <<>>

\* set_user_env_var on macOS: `io` is the outcome of the one write or open
macos_set_user_env_var(name, value, os, io) ==
    LET export_line == <<ExportTok(name), Quoted(value)>>
        existing == read_or_default(os)
        old == lines(existing)
        updated == [i \in 1..Len(old) |->
                        IF starts_with_export(old[i], name) THEN export_line ELSE old[i]]
    IN  IF contains_export(existing, name)
        THEN IF io # "ok"
             THEN [ret |-> Err("Failed to update shell config"), os |-> os]
             ELSE [ret |-> Ok(<<>>, ""),
                   os |-> [os EXCEPT !.files[config_file(os.shell)] =
                            File(join_lines(updated))]]
        ELSE IF io # "ok"
        THEN [ret |-> Err("Failed to open shell config"), os |-> os]
        ELSE [ret |-> Ok(<<>>, ""),
              os |-> [os EXCEPT !.files[config_file(os.shell)] =
                        File(existing \o <<NL, AddedBy, NL>> \o export_line \o <<NL>>)]]

\* add_to_path on macOS
macos_add_to_path(dir, os, io) ==
    LET path_line == <<ExportTok("PATH"), PathValue(dir)>>
        existing == read_or_default(os)
    IN  IF contains_dir(existing, dir)
        THEN [ret |-> Ok(<<>>, ""), os |-> os]
        ELSE IF io # "ok"
        THEN [ret |-> Err("Failed to open shell config"), os |-> os]
        ELSE [ret |-> Ok(<<>>, ""),
              os |-> [os EXCEPT !.files[config_file(os.shell)] =
                        File(existing \o <<NL, AddedBy, NL>> \o path_line \o <<NL>>)]]

\* What the registry calls may do: the key cannot be opened, the value
\* cannot be set, or both succeed
RegistryOutcomes == {"ok", "open_error", "set_error"}

\* set_user_env_var on Windows
windows_set_user_env_var(name, value, os, io) ==
    CASE io = "open_error" ->
            [ret |-> Err("Failed to open Environment registry key"), os |-> os]
      [] io = "set_error" ->
            [ret |-> Err("Failed to set environment variable"), os |-> os]
      [] io = "ok" ->
            [ret |-> Ok(<<>>, ""),
             os |-> [os EXCEPT !.values = (name :> value) @@ os.values]]

\* An entry of the Path value: a directory as it is spelled, `folded` being
\* the spelling with the ASCII letters in one case
PathEntry(spelled, folded) == [spelled |-> spelled, folded |-> folded]
eq_ignore_ascii_case(p, q) == p.folded = q.folded

\* current_path.split(';'): the empty string has one empty entry
EmptyEntry == PathEntry("", "")
split_path(current_path) ==
    IF current_path = <<>> THEN <<EmptyEntry>> ELSE current_path

\* add_to_path on Windows: Path is the sequence of its entries between the
\* semicolons; a Path that cannot be read counts as empty
windows_add_to_path(dir, os, io) ==
    LET current_path == IF os.path.exists THEN os.path.data ELSE <<>>
        entries == split_path(current_path)
        new_path == IF current_path = <<>> THEN <<dir>> ELSE Append(current_path, dir)
    IN  IF io = "open_error"
        THEN [ret |-> Err("Failed to open Environment registry key"), os |-> os]
        ELSE IF \E i \in 1..Len(entries) : eq_ignore_ascii_case(entries[i], dir)
        THEN [ret |-> Ok(<<>>, ""), os |-> os]
        ELSE IF io = "set_error"
        THEN [ret |-> Err("Failed to update PATH"), os |-> os]
        ELSE [ret |-> Ok(<<>>, ""), os |-> [os EXCEPT !.path = File(new_path)]]

----------------------------------------------------------------------------
(* The state of the tool when neither install nor uninstall runs *)

\* install has not been called
NoInstall ==
    [pc |-> "Idle", steps |-> <<>>, oks |-> <<>>, version |-> <<>>, manifest |-> Null,
     checksum |-> NoDigest, source |-> "", result |-> Err("")]

toolVars == <<inst, home, vsixDir, cfgTree, certsDir, env, osEnv>>

\* Neither install nor uninstall is part of the run
NoTool ==
    /\ inst = NoInstall
    /\ home = EmptyHome
    /\ vsixDir = NoDir
    /\ certsDir = NoCertsDir
    /\ env = EmptyEnv
    /\ osEnv = EmptyOsEnv

----------------------------------------------------------------------------
(* The resolvers as a state machine: each action is one call *)

\* What an earlier run may have left at the output path
StaleOutputs == {NoFile, File(<<>>), File(<<0>>), File(<<1>>)}

\* The releases a manifest or a binary is asked for
Releases == {<<"1">>, <<"1", "1">>}

EmptyLocalDir ==
    [latest |-> NoFile, release |-> <<>>, platform |-> get_platform_id,
     manifest |-> NoDoc, binary |-> NoFile]

\* The local fallback trees: one that holds a `latest` file, one that holds
\* the manifest of one release, one that holds the binary of one release
\* for one platform
LocalDirs ==
    {[EmptyLocalDir EXCEPT !.latest = File(t)] : t \in Texts}
        \cup {[EmptyLocalDir EXCEPT !.release = v, !.manifest = File(d)] :
                v \in Releases,
                d \in {Garbage} \cup {JsonText("compact", m) : m \in ManifestVals}}
        \cup {[EmptyLocalDir EXCEPT !.release = v, !.platform = p, !.binary = File(c)] :
                v \in Releases, p \in PlatformIds, c \in Contents}
        \cup {EmptyLocalDir}

NoCall == [op |-> "none"]

vars ==
    <<localDir, out, srcTree, userFs, call, ret, log,
      inst, home, vsixDir, cfgTree, certsDir, env, osEnv>>

\* A run of the program makes each call once; the output path may hold the
\* file an earlier run left there
InitDownload ==
    /\ localDir \in LocalDirs
    /\ srcTree = EmptySrcTree
    /\ userFs = EmptyDst
    /\ out \in StaleOutputs
    /\ cfgTree = EmptyCfgTree
    /\ NoTool
    /\ call = NoCall
    /\ ret = Err("")
    /\ log = <<>>

GetLatestVersion ==
    /\ call = NoCall
    /\ \E remote \in LatestResponses, readable \in BOOLEAN :
        LET r == get_latest_version(localDir, remote, readable)
        IN  /\ call' = [op |-> "get_latest_version", remote |-> remote,
                        readable |-> readable]
            /\ ret' = r.ret
            /\ log' = r.log
            /\ UNCHANGED <<dlVars, cfgVars, toolVars>>

GetManifest ==
    /\ call = NoCall
    /\ \E version \in Releases, remote \in ManifestResponses :
        LET r == get_manifest(version, localDir, remote)
        IN  /\ call' = [op |-> "get_manifest", version |-> version, remote |-> remote]
            /\ ret' = r.ret
            /\ log' = r.log
            /\ UNCHANGED <<dlVars, cfgVars, toolVars>>

DownloadBinary ==
    /\ call = NoCall
    /\ \E version \in Releases, expected \in Checksums,
       remote \in BinaryResponses, copy \in CopyOutcomes :
        LET r == download_binary(version, get_platform_id, get_binary_name,
                                 localDir, out, expected, remote, copy)
        IN  /\ call' = [op |-> "download_binary", version |-> version,
                        expected |-> expected, remote |-> remote, copy |-> copy,
                        before |-> out]
            /\ ret' = r.ret
            /\ log' = r.log
            /\ out' = r.out
            /\ UNCHANGED <<localDir, cfgVars, toolVars>>

NextDownload == GetLatestVersion \/ GetManifest \/ DownloadBinary

SpecDownload == InitDownload /\ [][NextDownload]_vars

----------------------------------------------------------------------------
(* Properties of the resolvers *)

IsCall(op) == call.op = op

\* The file holds content whose digest is the expected checksum
Matches(file, expected) == file.exists /\ Sha256Hex(file.data) = expected

\* The local fallback binary of the last download_binary call
CallLocal ==
    LocalBinary(localDir, call.version, get_platform_id, get_binary_name)

\* The outcomes of the remote download of the last download_binary call
RemoteCompleted == call.remote.kind = "complete"
RemoteMatched == RemoteCompleted /\ Sha256Hex(call.remote.data) = call.expected
RemoteMismatched == RemoteCompleted /\ Sha256Hex(call.remote.data) # call.expected

\* The outcomes of the local fallback of the last download_binary call:
\* absent, a copy failure, present and matching, present and mismatching
LocalAbsent == ~CallLocal.exists
LocalCopyFailed == CallLocal.exists /\ call.copy.kind # "ok"
LocalMatched ==
    CallLocal.exists /\ call.copy.kind = "ok" /\ Matches(CallLocal, call.expected)
LocalMismatched ==
    CallLocal.exists /\ call.copy.kind = "ok" /\ ~Matches(CallLocal, call.expected)

\* C1: download_binary never leaves a file at output_path whose checksum
\* differs from expected_checksum, on any return path: after the call the
\* output either does not exist or holds content hashing to the checksum.
\* Stated for an output path that held no file before the call, so that a
\* file found afterwards is one the call wrote.
C1_NeverLeavesInvalidOutput ==
    (IsCall("download_binary") /\ ~call.before.exists) =>
        (~out.exists \/ Matches(out, call.expected))

\* C2: whenever download_binary returns Ok the output exists and hashes to
\* the expected checksum; it returns Remote only if the remote download
\* completed and that content verified, and LocalFallback only if the local
\* fallback file was copied to the output and the copy verified.
C2_OkMeansVerified ==
    (IsCall("download_binary") /\ ret.ok) =>
        /\ Matches(out, call.expected)
        /\ ret.source \in {Remote, LocalFallback}
        /\ ret.source = Remote =>
              /\ RemoteMatched
              /\ out = File(call.remote.data)
              /\ log = <<"get", "create", "verify">>
        /\ ret.source = LocalFallback =>
              /\ ~RemoteMatched
              /\ LocalMatched
              /\ out = File(CallLocal.data)
              /\ SubSeq(log, Len(log) - 1, Len(log)) = <<"copy", "verify">>

C2_Witness ==
    /\ IsCall("download_binary")
    /\ ret.ok
    /\ ret.source = Remote
    /\ call.before.exists
    /\ call.before.data # out.data

\* C3: a checksum mismatch of a completed remote download is not fatal: the
\* output is deleted and the local fallback is then attempted (the local
\* binary is looked for and, when present, copied); when the local binary
\* is present and matches, the call returns Ok(LocalFallback).
C3_RemoteMismatchFallsBack ==
    (IsCall("download_binary") /\ RemoteMismatched) =>
        /\ SubSeq(log, 1, 4) = <<"get", "create", "verify", "remove">>
        /\ LocalAbsent =>
              /\ ret = Err("Remote unavailable and no local fallback found")
              /\ ~out.exists
        /\ ~LocalAbsent => Len(log) > 4 /\ log[5] = "copy"
        /\ LocalMatched => ret = Ok(<<>>, LocalFallback)

C3_Witness ==
    /\ IsCall("download_binary")
    /\ RemoteMismatched
    /\ LocalMatched
    /\ ret = Ok(<<>>, LocalFallback)
    /\ CallLocal.data # call.remote.data

RemoteUnavailable ==
    call.remote.kind \in {"transport_error", "http_error", "read_error"}

\* The local manifest of the last get_manifest call
CallManifest == LocalManifest(localDir, call.version)

C6_LatestVersion ==
    IsCall("get_latest_version") =>
        /\ call.remote.kind = "success" =>
              /\ ret = Ok(Trim(call.remote.body), Remote)
              /\ log = <<"get">>
        /\ (~(ret.ok /\ ret.source = Remote)
                /\ localDir.latest.exists /\ call.readable) =>
              ret = Ok(Trim(localDir.latest.data), LocalFallback)
        /\ ~ret.ok =>
              /\ call.remote.kind # "success"
              /\ ~(localDir.latest.exists /\ call.readable)

\* C7: get_manifest fails only if both sources are unavailable or
\* unparsable: whenever local_dir/<version>/manifest.json exists and parses
\* as JSON, get_manifest returns Ok for every remote outcome.
C7_ManifestLocalSuffices ==
    (IsCall("get_manifest") /\ CallManifest.exists /\ CallManifest.data.valid) =>
        ret.ok

----------------------------------------------------------------------------
(* The deployment of the settings documents as a state machine: each       *)
(* action is one call; the files it leaves are what the next call finds    *)

\* the largest number in a generated settings document
MaxNum == 2
\* the most keys of a generated settings document
MaxKeys == 2

Keys == {"a", "b", "c"}
SettingValues ==
    {Num(n) : n \in 1..MaxNum} \cup {Obj(("x" :> Num(1))), Obj(("y" :> Num(1)))}

\* The override law's example: {"a":1,"b":2} merged with {"b":3,"c":4}
ExampleDest == Obj(("a" :> Num(1)) @@ ("b" :> Num(2)))
ExampleSource == Obj(("b" :> Num(3)) @@ ("c" :> Num(4)))
ExampleMerged == Obj(("a" :> Num(1)) @@ ("b" :> Num(3)) @@ ("c" :> Num(4)))

SettingsDocs ==
    {Obj(f) : f \in UNION {[K -> SettingValues] :
                            K \in {S \in SUBSET Keys : Cardinality(S) <= MaxKeys}}}
        \cup {ExampleSource, Num(1)}

\* What a settings file may hold
SettingsTexts ==
    {Garbage} \cup {JsonText(l, v) : l \in {"pretty", "compact"}, v \in SettingsDocs}
SettingsFiles == {NoDoc} \cup {File(t) : t \in SettingsTexts}

\* The editor settings sources and destinations: a few texts at each of the
\* three paths
EditorTexts ==
    {Garbage, JsonText("compact", ExampleSource), JsonText("pretty", ExampleDest)}
EditorFiles == {NoDoc} \cup {File(t) : t \in EditorTexts}

\* A directory exists when a file in it does
InitConfig ==
    /\ \/ /\ srcTree \in {[EmptySrcTree EXCEPT !.claude = f] : f \in SettingsFiles}
          /\ userFs \in {[EmptyDst EXCEPT !.claude = f, !.claude_dir = e] :
                            f \in SettingsFiles, e \in BOOLEAN}
       \/ /\ srcTree \in {[EmptySrcTree EXCEPT !.vscode_platform = p, !.vscode_alt = a] :
                            p \in EditorFiles, a \in EditorFiles}
          /\ userFs \in {[EmptyDst EXCEPT !.vscode = f, !.vscode_dir = e] :
                            f \in EditorFiles, e \in BOOLEAN}
    /\ userFs.claude.exists => userFs.claude_dir
    /\ userFs.vscode.exists => userFs.vscode_dir
    /\ localDir = EmptyLocalDir
    /\ out = NoFile
    /\ cfgTree = [EmptyCfgTree EXCEPT !.root = TRUE]
    /\ NoTool
    /\ call = NoCall
    /\ ret = Err("")
    /\ log = <<>>

\* The call record of a deployment: the function, the directories as the
\* call found them and the function the call before it ran
DeployClaudeSettings ==
    LET r == deploy_claude_settings(srcTree, userFs)
    IN  /\ call' = [op |-> "deploy_claude_settings", before |-> userFs,
                    prev |-> call.op]
        /\ ret' = r.ret
        /\ log' = r.log
        /\ userFs' = r.dst
        /\ UNCHANGED <<srcTree, dlVars, toolVars>>

DeployVscodeSettings ==
    LET r == deploy_vscode_settings(srcTree, userFs)
    IN  /\ call' = [op |-> "deploy_vscode_settings", before |-> userFs,
                    prev |-> call.op]
        /\ ret' = r.ret
        /\ log' = r.log
        /\ userFs' = r.dst
        /\ UNCHANGED <<srcTree, dlVars, toolVars>>

NextConfig == DeployClaudeSettings \/ DeployVscodeSettings

SpecConfig == InitConfig /\ [][NextConfig]_vars

----------------------------------------------------------------------------
(* Properties of the settings deployment *)

IsDeploy == call.op \in {"deploy_claude_settings", "deploy_vscode_settings"}

\* The source, the destination as the last deployment found it and the
\* destination as it left it
DeploySource ==
    IF call.op = "deploy_claude_settings" THEN srcTree.claude
    ELSE IF srcTree.vscode_platform.exists THEN srcTree.vscode_platform
    ELSE srcTree.vscode_alt
DestBefore ==
    IF call.op = "deploy_claude_settings" THEN call.before.claude
    ELSE call.before.vscode
DestAfter ==
    IF call.op = "deploy_claude_settings" THEN userFs.claude ELSE userFs.vscode

IsObjectFile(f) == f.exists /\ f.data.valid /\ f.data.val.t = "obj"

\* The last call merged two documents whose roots are objects
MergedObjects == IsDeploy /\ IsObjectFile(DeploySource) /\ IsObjectFile(DestBefore)

\* C8: top-level override merge: when the source S and the destination D
\* both parse to objects, the destination is written as a document whose
\* top-level keys are exactly keys(S) \cup keys(D), every key of S maps to
\* S's value in full (a nested object present in both is replaced) and every
\* key only in D keeps D's value; D = {a:1,b:2}, S = {b:3,c:4} gives exactly
\* {a:1,b:3,c:4}.
C8_TopLevelOverride ==
    MergedObjects =>
        LET S == DeploySource.data.val.o
            D == DestBefore.data.val.o
        IN  /\ ret.ok
            /\ IsObjectFile(DestAfter)
            /\ LET R == DestAfter.data.val.o
               IN  /\ DOMAIN R = DOMAIN S \cup DOMAIN D
                   /\ \A k \in DOMAIN S : R[k] = S[k]
                   /\ \A k \in DOMAIN D \ DOMAIN S : R[k] = D[k]
            /\ (DeploySource.data.val = ExampleSource
                    /\ DestBefore.data.val = ExampleDest) =>
                  DestAfter.data.val = ExampleMerged

C8_Witness ==
    /\ MergedObjects
    /\ DeploySource.data.val = ExampleSource
    /\ DestBefore.data.val = ExampleDest
    /\ DestAfter.data.val = ExampleMerged

\* The document a file holds: the parsed value of a JSON text, whatever its
\* layout; the bytes themselves of a text that is no JSON
Document(f) ==
    IF f.exists /\ f.data.valid
    THEN [exists |-> TRUE, valid |-> TRUE, layout |-> "", val |-> f.data.val]
    ELSE [exists |-> f.exists, valid |-> FALSE, layout |-> f.data.layout,
          val |-> f.data.val]

\* The last call deployed the source that the call before it had deployed
DeployedAgain == IsDeploy /\ call.prev = call.op

\* C9: merge idempotence: deploying a fixed source S into a destination and
\* then deploying S again into the result yields the same destination
\* document as the first deployment, also when the first deployment was a
\* copy; the second deployment rewrites only the layout of a copied text,
\* and leaves the bytes of a merged (pretty) text as they are.
C9_DeployIdempotent ==
    DeployedAgain =>
        /\ Document(DestAfter) = Document(DestBefore)
        /\ (DestBefore.exists /\ DestBefore.data.layout # "compact") =>
              DestAfter = DestBefore

\* The first deployment copied a compact source (no deployment writes a
\* compact text), the second parsed it and wrote it back
C9_Witness ==
    /\ DeployedAgain
    /\ IsObjectFile(DeploySource)
    /\ DestBefore = DeploySource
    /\ DestBefore.data.layout = "compact"
    /\ DestAfter # DestBefore
    /\ DestAfter.data.val = DeploySource.data.val

\* C10: copy when absent: when the destination settings file does not
\* exist, deploy_claude_settings and deploy_vscode_settings create it as a
\* byte-identical copy of the source file, without parsing it, so also when
\* the source is no JSON.
C10_CopyWhenAbsent ==
    (IsDeploy /\ DeploySource.exists /\ ~DestBefore.exists) =>
        /\ ret.ok
        /\ DestAfter.exists
        /\ DestAfter.data = DeploySource.data
        /\ log = <<"create_dir", "copy">>

C10_Witness ==
    /\ call.op = "deploy_vscode_settings"
    /\ DeploySource.exists
    /\ ~DeploySource.data.valid
    /\ ~DestBefore.exists
    /\ DestAfter = DeploySource

\* The last call found both files and so called merge_json_settings
Merged == IsDeploy /\ DeploySource.exists /\ DestBefore.exists

\* C11: merge_json_settings returns an error if either the source or the
\* existing destination file is not parsable as JSON, and the destination
\* file's bytes are then unchanged: nothing is written before both
\* documents have parsed.
C11_UnparsableLeavesDest ==
    (Merged /\ (~DeploySource.data.valid \/ ~DestBefore.data.valid)) =>
        /\ ~ret.ok
        /\ DestAfter = DestBefore
        /\ \A i \in 1..Len(log) : log[i] # "write"

C11_Witness ==
    /\ Merged
    /\ IsObjectFile(DeploySource)
    /\ ~DestBefore.data.valid
    /\ ~ret.ok
    /\ DestAfter = DestBefore

\* C12: when the source root or the destination root parses to a value
\* that is no object, merge_json_settings skips merging silently: it
\* returns Ok and the destination's parsed value after the call equals its
\* parsed value before the call, so no key of the source is introduced.
C12_NonObjectSkipsMerge ==
    (Merged /\ DeploySource.data.valid /\ DestBefore.data.valid
        /\ (DeploySource.data.val.t # "obj" \/ DestBefore.data.val.t # "obj")) =>
        /\ ret.ok
        /\ DestAfter.exists
        /\ DestAfter.data.valid
        /\ DestAfter.data.val = DestBefore.data.val

C12_Witness ==
    /\ Merged
    /\ IsObjectFile(DeploySource)
    /\ DOMAIN DeploySource.data.val.o # {}
    /\ DestBefore.data.valid
    /\ DestBefore.data.val.t = "num"
    /\ ret.ok
    /\ DestAfter.data.val = DestBefore.data.val

----------------------------------------------------------------------------
(* The machines install runs on *)

\* The local fallback tree of release "1" whose binary is the content <<1>>
FixtureBinary == <<1>>
FixtureManifest == ManifestFor(get_platform_id, Sha256Hex(FixtureBinary))
OtherPlatformManifest == ManifestFor("darwin-arm64", Sha256Hex(FixtureBinary))
\* a manifest whose checksum of the platform is a number, no string
NumberChecksumManifest ==
    Obj(("platforms" :> Obj((get_platform_id :> Obj(("checksum" :> Num(1)))))))

FullLocalDir ==
    [latest |-> File(<<"1", "\n">>), release |-> <<"1">>, platform |-> get_platform_id,
     manifest |-> File(JsonText("pretty", FixtureManifest)),
     binary |-> File(FixtureBinary)]

InstallLocalDirs ==
    {EmptyLocalDir, FullLocalDir,
     [FullLocalDir EXCEPT !.manifest = File(JsonText("pretty", OtherPlatformManifest))],
     [FullLocalDir EXCEPT !.binary = File(<<0>>)]}

InstallLatestResponses ==
    {r \in LatestResponses :
        r.kind = "transport_error" \/ (r.kind = "success" /\ r.body = <<"1">>)}

InstallManifestResponses ==
    {[kind |-> "transport_error", body |-> Garbage], [kind |-> "success", body |-> Garbage]}
        \cup {[kind |-> "success", body |-> JsonText("compact", m)] :
                m \in {FixtureManifest, OtherPlatformManifest, NumberChecksumManifest}}

\* <local_dir>/VSIX
VsixDirs ==
    {NoDir,
     Dir(<<Entry(VsixA, <<0>>)>>),
     Dir(<<Entry(VsixA, <<0>>), Entry(Readme, <<1>>), Entry(VsixB, <<1>>)>>)}

CertSource == Dir(<<Entry(ResourceFork, <<0>>), Entry(Zscaler, <<1>>), Entry(Readme, <<0>>)>>)
AltCertSource == Dir(<<Entry(ZscalerAlt, <<1>>)>>)

\* The outcomes drawn for one deployment
DeployIos ==
    {IoOk, [IoOk EXCEPT !.create_dir = FALSE], [IoOk EXCEPT !.set_env = "err"]}
        \cup {[IoOk EXCEPT !.copy_fails = {n}] : n \in {Zscaler}}
        \cup {[IoOk EXCEPT !.import_fails = {n}] : n \in {Zscaler, ZscalerAlt}}

\* What is to be deployed and into what: no platform tree at all, a tree
\* with the tool settings, a tree with certificates, a tree with editor
\* settings
DeployScenarios ==
    {[cfg |-> EmptyCfgTree, src |-> EmptySrcTree, dst |-> EmptyDst]}
        \cup {[cfg |-> [EmptyCfgTree EXCEPT !.root = TRUE],
               src |-> [EmptySrcTree EXCEPT !.claude = s],
               dst |-> [EmptyDst EXCEPT !.claude_dir = d.exists, !.claude = d]] :
                s \in {NoDoc, File(Garbage), File(JsonText("compact", ExampleSource))},
                d \in {NoDoc, File(Garbage), File(JsonText("pretty", ExampleDest))}}
        \cup {[cfg |-> [EmptyCfgTree EXCEPT !.root = TRUE, !.continue_certs = a, !.certs = b],
               src |-> EmptySrcTree, dst |-> EmptyDst] :
                a \in {NoDir, CertSource}, b \in {NoDir, AltCertSource}}
        \cup {[cfg |-> [EmptyCfgTree EXCEPT !.root = TRUE],
               src |-> [EmptySrcTree EXCEPT !.vscode_alt = File(JsonText("compact", ExampleSource))],
               dst |-> [EmptyDst EXCEPT !.vscode_dir = TRUE, !.vscode = d]] :
                d \in {NoDoc, File(Garbage)}}

----------------------------------------------------------------------------
(* ClaudeCode::install as a state machine: each action is one step of the
   function *)

\* install is called on a machine where an earlier run may have left a
\* temp binary in the downloads directory
InitInstall ==
    /\ localDir \in InstallLocalDirs
    /\ out \in {NoFile, File(<<0>>)}
    /\ \E s \in DeployScenarios :
        /\ cfgTree = s.cfg
        /\ srcTree = s.src
        /\ userFs = [s.dst EXCEPT !.claude_dir = s.dst.claude_dir \/ out.exists]
    /\ home = [EmptyHome EXCEPT !.downloads_dir = out.exists]
    /\ vsixDir \in VsixDirs
    /\ certsDir = NoCertsDir
    /\ env = EmptyEnv
    /\ osEnv = EmptyOsEnv
    /\ inst = [NoInstall EXCEPT !.pc = "ResolveVersion"]
    /\ call = NoCall
    /\ ret = Err("")
    /\ log = <<>>

\* The step has run and returned r: install goes on or returns
advance(i, step, r) ==
    [i EXCEPT !.pc = after(step, r.ok),
              !.steps = Append(@, step),
              !.oks = Append(@, r.ok),
              !.result = IF after(step, r.ok) = "Done" THEN Ok(<<>>, "") ELSE r]

\* The call record of a step: the step and the temp binary as it found it
StepCall(step) == [op |-> "install", step |-> step, before |-> out]

ResolveVersion ==
    /\ inst.pc = "ResolveVersion"
    /\ \E remote \in InstallLatestResponses, readable \in BOOLEAN :
        LET r == get_latest_version(localDir, remote, readable)
        IN  /\ inst' = [advance(inst, "ResolveVersion", r.ret) EXCEPT
                            !.version = r.ret.value]
            /\ call' = StepCall("ResolveVersion")
            /\ ret' = r.ret
            /\ log' = r.log
            /\ UNCHANGED <<dlVars, cfgVars, home, vsixDir, cfgTree, certsDir, env, osEnv>>

ResolveManifest ==
    /\ inst.pc = "ResolveManifest"
    /\ \E remote \in InstallManifestResponses :
        LET r == resolve_manifest(inst.version, localDir, remote)
        IN  /\ inst' = [advance(inst, "ResolveManifest", r.ret) EXCEPT
                            !.manifest = r.manifest,
                            !.checksum = IF r.ret.ok THEN r.ret.value ELSE NoDigest]
            /\ call' = StepCall("ResolveManifest")
            /\ ret' = r.ret
            /\ log' = r.log
            /\ UNCHANGED <<dlVars, cfgVars, home, vsixDir, cfgTree, certsDir, env, osEnv>>

AcquireBinary ==
    /\ inst.pc = "AcquireBinary"
    /\ \E mkdir \in BOOLEAN, remote \in BinaryResponses, copy \in CopyOutcomes,
          chmod \in BOOLEAN :
        LET r == acquire_binary(inst.version, inst.checksum, localDir, home, out,
                                mkdir, remote, copy, chmod)
        IN  /\ inst' = [advance(inst, "AcquireBinary", r.ret) EXCEPT
                            !.source = r.ret.source]
            /\ call' = StepCall("AcquireBinary")
            /\ ret' = r.ret
            /\ log' = r.log
            /\ out' = r.out
            /\ home' = r.home
            /\ userFs' = [userFs EXCEPT !.claude_dir = @ \/ r.home.downloads_dir]
            /\ UNCHANGED <<localDir, srcTree, vsixDir, cfgTree, certsDir, env, osEnv>>

RunVendorInstaller ==
    /\ inst.pc = "RunVendorInstaller"
    /\ \E vendor \in VendorOutcomes :
        LET r == run_vendor_installer(out, home, vendor)
        IN  /\ inst' = advance(inst, "RunVendorInstaller", r.ret)
            /\ call' = StepCall("RunVendorInstaller")
            /\ ret' = r.ret
            /\ log' = r.log
            /\ out' = r.out
            /\ home' = r.home
            /\ UNCHANGED <<localDir, cfgVars, vsixDir, cfgTree, certsDir, env, osEnv>>

InstallExtensions ==
    /\ inst.pc = "InstallExtensions"
    /\ \E cli \in [1..Len(vsixDir.entries) -> CliOutcomes] :
        LET r == install_vsix_extensions(vsixDir, cli)
        IN  /\ inst' = advance(inst, "InstallExtensions", r.ret)
            /\ call' = [StepCall("InstallExtensions") EXCEPT !.before = cli]
            /\ ret' = r.ret
            /\ log' = r.log
            /\ UNCHANGED <<dlVars, cfgVars, home, vsixDir, cfgTree, certsDir, env, osEnv>>

DeployConfigs ==
    /\ inst.pc = "DeployConfigs"
    /\ \E io \in DeployIos :
        LET r == deploy_configs(cfgTree, srcTree, userFs, certsDir, env, io)
        IN  /\ inst' = advance(inst, "DeployConfigs", r.ret)
            /\ call' = [StepCall("DeployConfigs") EXCEPT !.before = userFs]
            /\ ret' = r.ret
            /\ log' = r.log
            /\ userFs' = r.dst
            /\ certsDir' = r.certs
            /\ env' = r.env
            /\ UNCHANGED <<dlVars, srcTree, home, vsixDir, cfgTree, osEnv>>

RegisterPath ==
    /\ inst.pc = "RegisterPath"
    /\ \E outcome \in PlatformOutcomes :
        LET r == add_to_path(get_install_dir, env, outcome)
        IN  /\ inst' = advance(inst, "RegisterPath", r.ret)
            /\ call' = StepCall("RegisterPath")
            /\ ret' = r.ret
            /\ log' = <<"add_to_path">>
            /\ env' = r.env
            /\ UNCHANGED <<dlVars, cfgVars, home, vsixDir, cfgTree, certsDir, osEnv>>

NextInstall ==
    \/ ResolveVersion
    \/ ResolveManifest
    \/ AcquireBinary
    \/ RunVendorInstaller
    \/ InstallExtensions
    \/ DeployConfigs
    \/ RegisterPath

SpecInstall == InitInstall /\ [][NextInstall]_vars

----------------------------------------------------------------------------
(* ClaudeCode::uninstall: one action is one call *)

\* The tool-config directory as an installation and its use left it
InstalledHomes ==
    {[bin_dir |-> b.exists \/ o.exists \/ e, binary |-> b, bin_other |-> o,
      downloads_dir |-> d, user_data |-> u] :
        b \in {NoFile, File(FixtureBinary)}, o \in {NoFile, File(<<0>>)},
        e \in BOOLEAN, d \in BOOLEAN, u \in {NoFile, File(<<0, 1>>)}}

InitUninstall ==
    /\ home \in InstalledHomes
    /\ out \in {NoFile, File(FixtureBinary)}
    /\ out.exists => home.downloads_dir
    /\ \E f \in {NoDoc, File(Garbage), File(JsonText("pretty", ExampleMerged))} :
        userFs = [EmptyDst EXCEPT !.claude = f,
                    !.claude_dir = f.exists \/ home.bin_dir \/ home.downloads_dir
                                    \/ home.user_data.exists]
    /\ localDir = EmptyLocalDir
    /\ srcTree = EmptySrcTree
    /\ cfgTree = EmptyCfgTree
    /\ vsixDir = NoDir
    /\ certsDir = NoCertsDir
    /\ env = EmptyEnv
    /\ osEnv = EmptyOsEnv
    /\ inst = NoInstall
    /\ call = NoCall
    /\ ret = Err("")
    /\ log = <<>>

Uninstall ==
    /\ call = NoCall
    /\ \E vendor \in VendorOutcomes, rm \in RemoveOutcomes :
        LET r == uninstall(home, userFs, vendor, rm)
        IN  /\ call' = [op |-> "uninstall", home |-> home, before |-> userFs,
                        vendor |-> vendor, rm |-> rm]
            /\ ret' = r.ret
            /\ log' = r.log
            /\ home' = r.home
            /\ userFs' = r.dst
            /\ UNCHANGED <<dlVars, srcTree, inst, vsixDir, cfgTree, certsDir, env, osEnv>>

NextUninstall == Uninstall

SpecUninstall == InitUninstall /\ [][NextUninstall]_vars

----------------------------------------------------------------------------
(* Properties of install *)

IsStep(step) == call.op = "install" /\ call.step = step

\* The steps install has run so far, and whether it has run the step
Ran(step) == \E i \in 1..Len(inst.steps) : inst.steps[i] = step

\* What the resolved manifest holds as the checksum of the platform
ManifestChecksum ==
    Index(Index(Index(inst.manifest, "platforms"), get_platform_id), "checksum")

\* Every step run so far but the last one returned Ok
EarlierStepsOk == \A i \in 1..(Len(inst.steps) - 1) : inst.oks[i]

\* C13: install runs its steps strictly in the order ResolveVersion,
\* ResolveManifest, AcquireBinary, RunVendorInstaller, InstallExtensions,
\* DeployConfigs, RegisterPath, Done: the steps run so far are a prefix of
\* that order (so each ran at most once and none after a later one), the
\* next step is the one that follows them, and when a step before
\* RegisterPath returned an error it is the last step run and install has
\* returned that error.
C13_StepsInOrder ==
    /\ Len(inst.steps) <= Len(StepOrder)
    /\ inst.steps = SubSeq(StepOrder, 1, Len(inst.steps))
    /\ Len(inst.oks) = Len(inst.steps)
    /\ inst.pc \in {"Done", "Failed"}
         \/ (Len(inst.steps) < Len(StepOrder) /\ inst.pc = StepOrder[Len(inst.steps) + 1])
    /\ inst.pc = "Done" => inst.steps = StepOrder /\ inst.result.ok
    /\ \A i \in 1..Len(inst.steps) :
        (~inst.oks[i] /\ inst.steps[i] # "RegisterPath") =>
            /\ i = Len(inst.steps)
            /\ inst.pc = "Failed"
            /\ inst.result = ret
            /\ ~inst.result.ok
    /\ inst.pc = "Failed" => inst.steps # <<>> /\ ~inst.oks[Len(inst.steps)]

C13_Witness ==
    /\ inst.pc = "Failed"
    /\ inst.steps = SubSeq(StepOrder, 1, 4)
    /\ inst.oks = <<TRUE, TRUE, TRUE, FALSE>>
    /\ inst.result.err = "Claude install failed"

\* C14: the vendor installer is launched only on a file that passed the
\* checksum verification of the same run: whenever install is about to
\* run RunVendorInstaller or has run it, the three resolution steps
\* returned Ok, the checksum is the string the resolved manifest holds for
\* the platform, and the file at the temp path (the one launched) hashes to
\* that checksum.
C14_LaunchOnlyVerified ==
    /\ inst.pc = "RunVendorInstaller" =>
        /\ inst.oks = <<TRUE, TRUE, TRUE>>
        /\ ret.ok
        /\ ManifestChecksum = Str(inst.checksum)
        /\ Matches(out, inst.checksum)
    /\ Ran("RunVendorInstaller") =>
        /\ inst.oks[1] /\ inst.oks[2] /\ inst.oks[3]
        /\ ManifestChecksum = Str(inst.checksum)
    /\ IsStep("RunVendorInstaller") => Matches(call.before, inst.checksum)

C14_Witness ==
    /\ IsStep("RunVendorInstaller")
    /\ ret.ok
    /\ call.before = File(FixtureBinary)
    /\ inst.checksum = Sha256Hex(FixtureBinary)
    /\ home.binary = File(FixtureBinary)

\* C15: a failure inside deploy_configs is not fatal for install: when the
\* DeployConfigs step has run and deploy_configs returned an error, install
\* goes on to RegisterPath (and from there returns Ok).
C15_DeployFailureNotFatal ==
    (IsStep("DeployConfigs") /\ ~ret.ok) => inst.pc = "RegisterPath"

\* C16: a failure of add_to_path never makes install fail: when the
\* RegisterPath step has run after every earlier step returned Ok, install
\* has returned Ok, whatever add_to_path returned.
C16_PathFailureNotFatal ==
    (IsStep("RegisterPath") /\ EarlierStepsOk) =>
        /\ inst.pc = "Done"
        /\ inst.result.ok

C16_Witness ==
    /\ IsStep("RegisterPath")
    /\ EarlierStepsOk
    /\ ~ret.ok
    /\ get_install_dir \notin env.path
    /\ inst.pc = "Done"
    /\ inst.result.ok

\* C17: when the resolved manifest holds no string checksum for the
\* platform, install fails with the platform-not-found error before a
\* download is attempted and before a file is created at the temp path:
\* the step after the manifest never runs, and the temp path and the
\* downloads directory are as the call found them.
C17_PlatformNotFound ==
    (Ran("ResolveManifest") /\ inst.oks[1] /\ inst.manifest # Null
        /\ ManifestChecksum.t # "str") =>
        /\ inst.pc = "Failed"
        /\ inst.result = Err("Platform not found in manifest")
        /\ ~Ran("AcquireBinary")
        /\ out = call.before
        /\ log = <<"get_manifest", "checksum">>

C17_Witness ==
    /\ IsStep("ResolveManifest")
    /\ inst.manifest \in {OtherPlatformManifest, NumberChecksumManifest}
    /\ inst.pc = "Failed"
    /\ ~out.exists
    /\ ~home.downloads_dir

----------------------------------------------------------------------------
(* Properties of uninstall *)

InLog(op) == \E i \in 1..Len(log) : log[i] = op

C19_TwoBranches ==
    IsCall("uninstall") =>
        /\ InLog("launch") <=> call.home.binary.exists
        /\ InLog("remove_file") <=> (call.home.binary.exists /\ call.vendor # "ok")
        /\ ~call.home.binary.exists =>
            (log = <<>> /\ home = call.home /\ userFs = call.before)
        /\ ret.ok

C19_Witness ==
    /\ IsCall("uninstall")
    /\ call.home.binary.exists
    /\ call.vendor = "launch_failed"
    /\ log = <<"launch", "remove_file", "remove_dir_all">>
    /\ ~home.binary.exists
    /\ ret.ok

----------------------------------------------------------------------------
(* Properties of the extension packages *)

\* The .vsix packages of a directory, in the order read_dir yields them
RECURSIVE Packages(_)
Packages(entries) ==
    IF entries = <<>> THEN <<>>
    ELSE LET rest == Packages(Tail(entries))
         IN  IF extension(Head(entries).name) = [some |-> TRUE, ext |-> <<"vsix">>]
             THEN <<Head(entries).name>> \o rest
             ELSE rest

\* C20: install_vsix_extensions runs the extension-installer CLI once for
\* every .vsix file of the directory, and a failure for one package
\* (non-zero exit or failure to launch the CLI) neither keeps the remaining
\* packages from being processed nor makes the function return an error.
C20_EveryPackageProcessed ==
    IsStep("InstallExtensions") =>
        /\ ret.ok
        /\ log = Packages(vsixDir.entries)

----------------------------------------------------------------------------
(* Properties of the editor settings *)

\* What deploying the one document `source` makes of the destination file
\* the call found
EditorSettingsFrom(source) ==
    IF call.before.vscode.exists
    THEN merge_json_settings(source, call.before.vscode).dest
    ELSE File(source.data)

\* C27: deploy_vscode_settings takes its source by precedence: the
\* platform-specific settings.json when it exists, else the flat
\* vscode-settings.json when that exists, else nothing is deployed and the
\* destination file and directory are as the call found them; when both
\* exist the destination is what the platform-specific document alone
\* makes of it.
C27_EditorSourcePrecedence ==
    IsCall("deploy_vscode_settings") =>
        /\ srcTree.vscode_platform.exists =>
            /\ userFs.vscode = EditorSettingsFrom(srcTree.vscode_platform)
            /\ userFs.vscode_dir
        /\ (~srcTree.vscode_platform.exists /\ srcTree.vscode_alt.exists) =>
            /\ userFs.vscode = EditorSettingsFrom(srcTree.vscode_alt)
            /\ userFs.vscode_dir
        /\ (~srcTree.vscode_platform.exists /\ ~srcTree.vscode_alt.exists) =>
            /\ userFs = call.before
            /\ ret.ok
            /\ log = <<>>

C27_Witness ==
    /\ IsCall("deploy_vscode_settings")
    /\ IsObjectFile(srcTree.vscode_platform)
    /\ IsObjectFile(srcTree.vscode_alt)
    /\ srcTree.vscode_platform.data.val # srcTree.vscode_alt.data.val
    /\ ~call.before.vscode.exists
    /\ userFs.vscode = srcTree.vscode_platform
    /\ ret.ok

----------------------------------------------------------------------------
(* verify_checksum as a state machine: one action is one call *)

\* The files the checksum is taken of: one byte longer than the binaries,
\* so that a file takes more reads than one
ChunkedContents == UNION {[1..k -> Byte] : k \in 0..(MaxLen + 1)}

\* The ways the file's n bytes may arrive: each read returns at least one
\* byte and at most a buffer full
RECURSIVE ReadSplits(_)
ReadSplits(n) ==
    IF n = 0 THEN {<<>>}
    ELSE UNION {{<<k>> \o rest : rest \in ReadSplits(n - k)} :
                    k \in 1..Min(BufferLen, n)}

InitChecksum ==
    /\ out \in {NoFile} \cup {File(c) : c \in ChunkedContents}
    /\ localDir = EmptyLocalDir
    /\ srcTree = EmptySrcTree
    /\ userFs = EmptyDst
    /\ cfgTree = EmptyCfgTree
    /\ NoTool
    /\ call = NoCall
    /\ ret = Err("")
    /\ log = <<>>

VerifyChecksum ==
    /\ call = NoCall
    /\ \E expected \in {Sha256Hex(c) : c \in ChunkedContents} \cup {NoDigest},
          reads \in ReadSplits(Len(out.data)) :
        LET r == verify_checksum_chunked(out, expected, reads)
        IN  /\ call' = [op |-> "verify_checksum", expected |-> expected,
                        reads |-> reads, before |-> out]
            /\ ret' = IF r.ok THEN Ok(r.val, "") ELSE Err("open")
            /\ log' = <<>>
            /\ out' = r.file
            /\ UNCHANGED <<localDir, cfgVars, toolVars>>

NextChecksum == VerifyChecksum

SpecChecksum == InitChecksum /\ [][NextChecksum]_vars

\* C25: verify_checksum returns Ok(true) exactly when the digest of the
\* whole file content equals the expected string and Ok(false) for any
\* content with another digest, however the content arrives in reads, and
\* it leaves the file as it found it; the result is the one the resolvers
\* above rely on.
C25_ChecksumOfWholeContent ==
    IsCall("verify_checksum") =>
        /\ out = call.before
        /\ call.before.exists =>
            /\ ret.ok
            /\ ret.value = (Sha256Hex(call.before.data) = call.expected)
            /\ ret.value = verify_checksum(call.before, call.expected).val
        /\ ~call.before.exists => ~ret.ok

C25_Witness ==
    /\ IsCall("verify_checksum")
    /\ call.before = File(<<1, 0, 1>>)
    /\ call.reads = <<2, 1>>
    /\ call.expected = Sha256Hex(<<1, 0, 1>>)
    /\ ret = Ok(TRUE, "")

----------------------------------------------------------------------------
(* The configuration deployment as a state machine: one action is one call
   of deploy_configs, of configure, or of one of the two steps that use the
   certificate directory *)

DotCrt == <<".", "crt">>
PemCrt == <<"corp", ".", "pem", ".", "crt">>

\* A certificate source directory with names of every kind
MixedCertSource ==
    Dir(<<Entry(DotCrt, <<0>>), Entry(ResourceFork, <<0>>), Entry(ZscalerAlt, <<0>>),
          Entry(Readme, <<1>>), Entry(PemCrt, <<1>>)>>)

DeployTrees ==
    DeployScenarios
        \cup {[cfg |-> [EmptyCfgTree EXCEPT !.root = TRUE, !.continue_certs = a, !.certs = b],
               src |-> EmptySrcTree, dst |-> EmptyDst] :
                a \in {NoDir, MixedCertSource}, b \in {CertSource, MixedCertSource}}

\* The destination certificate directory as earlier runs or the user left it
CertsDirs ==
    {NoCertsDir, [exists |-> TRUE, files |-> <<>>]}
        \cup {[exists |-> TRUE, files |-> f] :
                f \in {(Zscaler :> <<0>>), (ZscalerAlt :> <<1>>),
                       (Zscaler :> <<0>>) @@ (ZscalerAlt :> <<1>>),
                       (Readme :> <<0>>)}}

Envs == {EmptyEnv, [EmptyEnv EXCEPT !.vars = ("NODE_EXTRA_CA_CERTS" :> ZscalerAlt)]}

\* The tool is installed; nothing is on PATH yet
InstalledHome ==
    [EmptyHome EXCEPT !.bin_dir = TRUE, !.binary = File(FixtureBinary),
                      !.downloads_dir = TRUE]

InitDeploy ==
    /\ \E s \in DeployTrees :
        /\ cfgTree = s.cfg
        /\ srcTree = s.src
        /\ userFs = [s.dst EXCEPT !.claude_dir = TRUE]
    /\ certsDir \in CertsDirs
    /\ env \in Envs
    /\ osEnv = EmptyOsEnv
    /\ vsixDir \in {NoDir, Dir(<<Entry(VsixA, <<0>>)>>)}
    /\ home = InstalledHome
    /\ inst = NoInstall
    /\ localDir = EmptyLocalDir
    /\ out = NoFile
    /\ call = NoCall
    /\ ret = Err("")
    /\ log = <<>>

\* The call record of a deployment call: what the call found
DeployCall(op, io) ==
    [op |-> op, before |-> userFs, certs |-> certsDir, env |-> env, io |-> io,
     home |-> home, out |-> out]

DeployConfigsCall ==
    /\ call = NoCall
    /\ \E io \in DeployIos :
        LET r == deploy_configs(cfgTree, srcTree, userFs, certsDir, env, io)
        IN  /\ call' = DeployCall("deploy_configs", io)
            /\ ret' = r.ret
            /\ log' = r.log
            /\ userFs' = r.dst
            /\ certsDir' = r.certs
            /\ env' = r.env
            /\ UNCHANGED <<dlVars, srcTree, inst, home, vsixDir, cfgTree, osEnv>>

Configure ==
    /\ call = NoCall
    /\ \E cli \in [1..Len(vsixDir.entries) -> CliOutcomes], io \in DeployIos :
        LET r == configure(vsixDir, cli, cfgTree, srcTree, userFs, certsDir, env, io)
        IN  /\ call' = [DeployCall("configure", io) EXCEPT !.io = [io |-> io, cli |-> cli]]
            /\ ret' = r.ret
            /\ log' = r.log
            /\ userFs' = r.dst
            /\ certsDir' = r.certs
            /\ env' = r.env
            /\ UNCHANGED <<dlVars, srcTree, inst, home, vsixDir, cfgTree, osEnv>>

DeployCertificates ==
    /\ call = NoCall
    /\ cfgTree.root
    /\ \E io \in DeployIos :
        LET r == deploy_certificates(cfgTree, certsDir, env, io)
        IN  /\ call' = DeployCall("deploy_certificates", io)
            /\ ret' = r.ret
            /\ log' = <<>>
            /\ certsDir' = r.certs
            /\ env' = r.env
            /\ UNCHANGED <<dlVars, cfgVars, inst, home, vsixDir, cfgTree, osEnv>>

ConfigureEnvironment ==
    /\ call = NoCall
    /\ \E outcome \in PlatformOutcomes :
        LET r == configure_environment(certsDir, env, outcome)
        IN  /\ call' = DeployCall("configure_environment", outcome)
            /\ ret' = r.ret
            /\ log' = <<>>
            /\ env' = r.env
            /\ UNCHANGED <<dlVars, cfgVars, inst, home, vsixDir, cfgTree, certsDir, osEnv>>

NextDeploy ==
    \/ DeployConfigsCall
    \/ Configure
    \/ DeployCertificates
    \/ ConfigureEnvironment

SpecDeploy == InitDeploy /\ [][NextDeploy]_vars

----------------------------------------------------------------------------
(* Properties of the configuration deployment *)

AllDeploySteps ==
    <<"deploy_claude_settings", "deploy_certificates", "deploy_vscode_settings",
      "configure_environment">>

\* A known certificate is in the certificate directory
KnownCertIn(cd) ==
    cd.exists /\ (Zscaler \in DOMAIN cd.files \/ ZscalerAlt \in DOMAIN cd.files)

\* The known certificate of the directory that is to be registered
FirstKnownCert(cd) == IF Zscaler \in DOMAIN cd.files THEN Zscaler ELSE ZscalerAlt

\* No document the call reads is unparsable
DocsParse ==
    \A f \in {srcTree.claude, srcTree.vscode_platform, srcTree.vscode_alt,
              call.before.claude, call.before.vscode} :
        f.exists => f.data.valid

\* The last call of deploy_configs met missing sources at most: every
\* document it read parsed and no operation of it failed
OnlyMissingSources == IsCall("deploy_configs") /\ call.io = IoOk /\ DocsParse

\* C21: the steps of deploy_configs are independently best-effort: with
\* any of the sources missing (the tool settings, the certificate
\* directories, the editor settings, or the root of the platform tree) and
\* nothing else wrong, deploy_configs returns Ok, every step of a present
\* tree is performed, and the environment variable is registered whenever
\* a known certificate is in the destination certificate directory.
C21_StepsBestEffort ==
    OnlyMissingSources =>
        /\ ret.ok
        /\ cfgTree.root => log = AllDeploySteps
        /\ KnownCertIn(certsDir) =>
            /\ InLog("configure_environment")
            /\ "NODE_EXTRA_CA_CERTS" \in DOMAIN env.vars
            /\ env.vars["NODE_EXTRA_CA_CERTS"] = FirstKnownCert(certsDir)

\* The names a call of deploy_certificates is to copy, stated on the names
\* themselves: the last two pieces are "." and "crt" after at least one
\* other piece, and the first two are not "." and "_"
IsCrtName(name) ==
    /\ Len(name) >= 3
    /\ name[Len(name) - 1] = "."
    /\ name[Len(name)] = "crt"
    /\ ~(name[1] = "." /\ name[2] = "_")

SourceEntries ==
    (IF cfgTree.continue_certs.exists THEN cfgTree.continue_certs.entries ELSE <<>>)
        \o (IF cfgTree.certs.exists THEN cfgTree.certs.entries ELSE <<>>)

Eligible == {SourceEntries[i].name : i \in {j \in 1..Len(SourceEntries) :
                                                IsCrtName(SourceEntries[j].name)}}

\* The content the last entry of that name has
LastData(name) ==
    LET last == CHOOSE i \in 1..Len(SourceEntries) :
                    /\ SourceEntries[i].name = name
                    /\ \A j \in (i + 1)..Len(SourceEntries) : SourceEntries[j].name # name
    IN  SourceEntries[last].data

\* C22: a certificate whose trust import fails does not abort the
\* deployment: when import_certificate fails for a copied certificate and
\* nothing else does, deploy_certificates goes on to the remaining
\* certificates and returns Ok, and deploy_configs performs the later
\* steps, the editor settings and the environment variable.
C22_ImportFailureNotFatal ==
    (/\ call.op \in {"deploy_certificates", "deploy_configs"}
     /\ cfgTree.root
     /\ DocsParse
     /\ call.io.create_dir /\ call.io.copy_fails = {} /\ call.io.set_env = "ok"
     /\ call.io.import_fails \cap Eligible # {}) =>
        /\ ret.ok
        /\ \A n \in Eligible : n \in DOMAIN certsDir.files
        /\ env.trusted = call.env.trusted \cup (Eligible \ call.io.import_fails)
        /\ IsCall("deploy_configs") => log = AllDeploySteps

C22_Witness ==
    /\ IsCall("deploy_configs")
    /\ call.io.import_fails = {Zscaler}
    /\ Eligible = {Zscaler, ZscalerAlt}
    /\ env.trusted = {ZscalerAlt}
    /\ DOMAIN certsDir.files = {Zscaler, ZscalerAlt}
    /\ env.vars["NODE_EXTRA_CA_CERTS"] = Zscaler
    /\ log = AllDeploySteps
    /\ ret.ok

\* C24: configure applies the configuration without reinstalling: it
\* performs install_vsix_extensions and then deploy_configs and nothing
\* else; no version or manifest is resolved, no binary is downloaded or
\* written, the vendor installer is not run and PATH is as it was.
C24_ConfigureOnlyConfigures ==
    IsCall("configure") =>
        /\ log \in {<<"install_vsix_extensions">>,
                    <<"install_vsix_extensions", "deploy_configs">>}
        /\ log = <<"install_vsix_extensions">> => ~ret.ok
        /\ env.path = call.env.path
        /\ out = call.out
        /\ home = call.home
        /\ inst = NoInstall

C24_Witness ==
    /\ IsCall("configure")
    /\ log = <<"install_vsix_extensions", "deploy_configs">>
    /\ ret.ok
    /\ vsixDir.exists
    /\ userFs.claude.exists
    /\ ~call.before.claude.exists
    /\ env.path = {}
    /\ home.binary = File(FixtureBinary)

\* C26: deploy_certificates copies into the destination certificate
\* directory exactly the entries of the source directories whose extension
\* is crt and whose name does not start with "._": no other entry is
\* copied, a call that returns Ok has copied every such entry with its
\* content, the files the directory held otherwise are as they were, and no
\* certificate is imported that was not copied.
C26_OnlyCertificatesCopied ==
    IsCall("deploy_certificates") =>
        /\ DOMAIN certsDir.files \subseteq (DOMAIN call.certs.files \cup Eligible)
        /\ \A n \in DOMAIN call.certs.files :
            /\ n \in DOMAIN certsDir.files
            /\ n \notin Eligible => certsDir.files[n] = call.certs.files[n]
        /\ env.trusted \subseteq (call.env.trusted \cup Eligible)
        /\ \A n \in env.trusted \ call.env.trusted : n \in DOMAIN certsDir.files
        /\ ret.ok =>
            /\ \A n \in Eligible :
                /\ n \in DOMAIN certsDir.files
                /\ certsDir.files[n] = LastData(n)
            /\ env.trusted = call.env.trusted \cup (Eligible \ call.io.import_fails)

C26_Witness ==
    /\ IsCall("deploy_certificates")
    /\ cfgTree.continue_certs = MixedCertSource
    /\ cfgTree.certs = CertSource
    /\ call.io = IoOk
    /\ call.certs.files = (Readme :> <<0>>)
    /\ DOMAIN certsDir.files = {Readme, ZscalerAlt, PemCrt, Zscaler}
    /\ env.trusted = {ZscalerAlt, PemCrt, Zscaler}
    /\ ret.ok

\* C28: configure_environment registers NODE_EXTRA_CA_CERTS with
\* ZscalerRootCertificate-2048-SHA256.crt when that file is in the
\* destination certificate directory, otherwise with zscaler-root.crt when
\* that is, and changes nothing of the environment when neither is; when
\* both are, the first name wins.
C28_KnownCertificateRegistered ==
    IsCall("configure_environment") =>
        /\ (KnownCertIn(certsDir) /\ call.io = "ok") =>
            /\ ret.ok
            /\ env = [call.env EXCEPT !.vars =
                        ("NODE_EXTRA_CA_CERTS" :>
                            (IF Zscaler \in DOMAIN certsDir.files
                             THEN Zscaler ELSE ZscalerAlt)) @@ call.env.vars]
        /\ (KnownCertIn(certsDir) /\ call.io = "err") => (~ret.ok /\ env = call.env)
        /\ ~KnownCertIn(certsDir) => (ret.ok /\ env = call.env)

C28_Witness ==
    /\ IsCall("configure_environment")
    /\ DOMAIN certsDir.files = {Zscaler, ZscalerAlt}
    /\ call.env = [EmptyEnv EXCEPT !.vars = ("NODE_EXTRA_CA_CERTS" :> ZscalerAlt)]
    /\ env.vars["NODE_EXTRA_CA_CERTS"] = Zscaler
    /\ ret.ok

----------------------------------------------------------------------------
(* The end-to-end fallback scenario *)

\* C23: with the remote fetch of the binary failing, a local fallback
\* binary whose checksum is the manifest's for the platform, and a vendor
\* installer that exits successfully: download_binary returns LocalFallback
\* with the local binary, matching the checksum, at the temp path, and
\* install returns Ok (ends in Done) when it returns.
C23_FallbackInstallSucceeds ==
    /\ (IsStep("AcquireBinary") /\ ret.ok /\ ret.source = LocalFallback) =>
        /\ out = File(localDir.binary.data)
        /\ Matches(out, inst.checksum)
    /\ (/\ inst.source = LocalFallback
        /\ Ran("RunVendorInstaller")
        /\ inst.oks[4]
        /\ inst.pc \in {"Done", "Failed"}) => inst.pc = "Done"

----------------------------------------------------------------------------
(* The state machine of the environment mutation: the platform's
   set_user_env_var and add_to_path, called any number of times *)

\* The one variable the program sets (src/src/config/mod.rs) and the values
\* it gives it
CaVar == "NODE_EXTRA_CA_CERTS"
EnvValues == {"certs/ZscalerRootCertificate-2048-SHA256.crt", "certs/zscaler-root.crt"}

\* The directory the program registers, as a text and as an entry of Path
BinDir == ".claude/bin"
BinEntry == PathEntry(".claude/bin", ".claude/bin")

\* The contents a shell config file starts with: absent, empty, with and
\* without a final line feed, with CR LF line ends, with the variable
\* exported (at the start of a line, indented, in a comment, in the middle
\* of a line), with the directory on PATH, or named inside a longer path
ShellConfigs ==
    LET word == Tok("text", "alias")
        hash == Tok("text", "#")
        sp == Tok("sp", "")
        old == <<ExportTok(CaVar), Quoted("certs/old.crt")>>
    IN  { NoFile,
          File(<<>>),
          File(<<word, NL>>),
          File(<<word>>),
          File(<<word, CR, NL>>),
          File(old \o <<NL>>),
          File(<<sp>> \o old \o <<NL, word, NL>>),
          File(<<hash, sp>> \o old \o <<NL>>),
          File(<<word, sp>> \o old \o <<NL>>),
          File(<<word, CR, NL>> \o old \o <<CR, NL>>),
          File(<<ExportTok("PATH"), PathValue(BinDir), NL>>),
          File(<<hash, sp, LongerPath(BinDir), NL>>) }

\* The values Path starts with: absent, empty, without the directory, with
\* it in another case, with an empty entry
PathValues ==
    LET system == PathEntry("C:/Windows", "c:/windows")
    IN  { NoFile,
          File(<<>>),
          File(<<system>>),
          File(<<system, BinEntry>>),
          File(<<PathEntry(".CLAUDE/BIN", ".claude/bin"), system>>),
          File(<<system, EmptyEntry>>) }

OsEnvs ==
    { [EmptyOsEnv EXCEPT !.platform = "macos", !.shell = sh,
                         !.files[config_file(sh)] = f] :
        sh \in {"unset", "/bin/zsh", "/bin/bash", "/bin/sh"}, f \in ShellConfigs }
    \cup
    { [EmptyOsEnv EXCEPT !.platform = "windows", !.path = p, !.values = v] :
        p \in PathValues, v \in {<<>>, (CaVar :> "certs/old.crt")} }

InitEnv ==
    /\ osEnv \in OsEnvs
    /\ localDir = EmptyLocalDir
    /\ out = NoFile
    /\ srcTree = EmptySrcTree
    /\ userFs = EmptyDst
    /\ cfgTree = EmptyCfgTree
    /\ inst = NoInstall
    /\ home = EmptyHome
    /\ vsixDir = NoDir
    /\ certsDir = NoCertsDir
    /\ env = EmptyEnv
    /\ call = NoCall
    /\ ret = Err("")
    /\ log = <<>>

\* The call, the environment it found and the call before it
EnvCall(op, args, io) ==
    [op |-> op, args |-> args, io |-> io, before |-> osEnv,
     prev |-> IF call = NoCall THEN NoCall
              ELSE [op |-> call.op, args |-> call.args, ok |-> ret.ok]]

EnvUnchanged ==
    UNCHANGED <<dlVars, cfgVars, inst, home, vsixDir, cfgTree, certsDir, env, log>>

MacSetUserEnvVar ==
    /\ osEnv.platform = "macos"
    /\ \E value \in EnvValues, io \in PlatformOutcomes :
        LET r == macos_set_user_env_var(CaVar, value, osEnv, io)
        IN  /\ call' = EnvCall("set_user_env_var", <<CaVar, value>>, io)
            /\ ret' = r.ret
            /\ osEnv' = r.os
            /\ EnvUnchanged

MacAddToPath ==
    /\ osEnv.platform = "macos"
    /\ \E io \in PlatformOutcomes :
        LET r == macos_add_to_path(BinDir, osEnv, io)
        IN  /\ call' = EnvCall("add_to_path", <<BinDir>>, io)
            /\ ret' = r.ret
            /\ osEnv' = r.os
            /\ EnvUnchanged

WinSetUserEnvVar ==
    /\ osEnv.platform = "windows"
    /\ \E value \in EnvValues, io \in RegistryOutcomes :
        LET r == windows_set_user_env_var(CaVar, value, osEnv, io)
        IN  /\ call' = EnvCall("set_user_env_var", <<CaVar, value>>, io)
            /\ ret' = r.ret
            /\ osEnv' = r.os
            /\ EnvUnchanged

WinAddToPath ==
    /\ osEnv.platform = "windows"
    /\ \E io \in RegistryOutcomes :
        LET r == windows_add_to_path(BinEntry, osEnv, io)
        IN  /\ call' = EnvCall("add_to_path", <<BinEntry>>, io)
            /\ ret' = r.ret
            /\ osEnv' = r.os
            /\ EnvUnchanged

NextEnv ==
    \/ MacSetUserEnvVar
    \/ MacAddToPath
    \/ WinSetUserEnvVar
    \/ WinAddToPath

SpecEnv == InitEnv /\ [][NextEnv]_vars

----------------------------------------------------------------------------
(* Properties of the environment mutation *)

\* The call repeats the one before it, and both returned Ok
Repeated ==
    /\ call # NoCall
    /\ call.prev # NoCall
    /\ call.prev.op = call.op
    /\ call.prev.args = call.args
    /\ call.prev.ok
    /\ ret.ok

\* C29: environment mutation is idempotent: a second add_to_path(dir), and
\* a second set_user_env_var(name, value) with the same arguments, leave
\* the persisted environment as the first call left it, on the shell config
\* files and on the registry.
C29_SecondCallChangesNothing == Repeated => osEnv = call.before

\* The lines of a text that do not start with `export <name>=`
RECURSIVE OtherLines(_, _)
OtherLines(ls, name) ==
    IF ls = <<>> THEN <<>>
    ELSE IF starts_with_export(Head(ls), name) THEN OtherLines(Tail(ls), name)
    ELSE <<Head(ls)>> \o OtherLines(Tail(ls), name)

IsPrefix(s, t) == Len(s) <= Len(t) /\ SubSeq(t, 1, Len(s)) = s

\* C30: on macOS, when set_user_env_var(name, value) returns Ok, the shell
\* config file has a line `export name="value"` with the new value,
\* whatever the file held before, and every line that did not start with
\* `export name=` is still there.
C30_ExportLineWritten ==
    (IsCall("set_user_env_var") /\ osEnv.platform = "macos" /\ ret.ok) =>
        LET now == lines(read_or_default(osEnv))
            was == lines(read_or_default(call.before))
        IN  /\ \E i \in 1..Len(now) :
                now[i] = <<ExportTok(call.args[1]), Quoted(call.args[2])>>
            /\ IsPrefix(OtherLines(was, call.args[1]), OtherLines(now, call.args[1]))

\* The directories the shell config puts on PATH: those of the lines that
\* start with `export PATH="<dir>:$PATH"`
MacPathEntries(os) ==
    LET ls == lines(read_or_default(os))
    IN  { trim_start(ls[i])[2].a :
            i \in { j \in 1..Len(ls) :
                      LET t == trim_start(ls[j])
                      IN  /\ Len(t) >= 2
                          /\ t[1] = ExportTok("PATH")
                          /\ t[2].k = "pathval" } }

\* The entries of the registry's Path, in order
WinPathEntries(os) == IF os.path.exists THEN os.path.data ELSE <<>>

\* C31: whenever add_to_path(dir) returns Ok, dir is an entry of the
\* persisted PATH afterwards, whatever was there before (a shell config
\* that names dir only inside a longer path or in a comment, a Path that
\* holds dir in another letter case), and every entry registered before is
\* still there.
C31_DirOnPath ==
    (IsCall("add_to_path") /\ ret.ok) =>
        IF osEnv.platform = "macos"
        THEN /\ call.args[1] \in MacPathEntries(osEnv)
             /\ MacPathEntries(call.before) \subseteq MacPathEntries(osEnv)
        ELSE /\ \E i \in 1..Len(WinPathEntries(osEnv)) :
                    WinPathEntries(osEnv)[i].folded = call.args[1].folded
             /\ IsPrefix(WinPathEntries(call.before), WinPathEntries(osEnv))

----------------------------------------------------------------------------
(* The missing source root *)

\* C32: when the platform's source config tree root does not exist,
\* deploy_configs returns Ok, no file or directory of the user is created,
\* changed or deleted, and no platform collaborator is invoked (no
\* certificate is imported, no environment variable is set).
C32_MissingRootTouchesNothing ==
    (IsCall("deploy_configs") /\ ~cfgTree.root) =>
        /\ ret.ok
        /\ userFs = call.before
        /\ certsDir = call.certs
        /\ env = call.env
        /\ home = call.home
        /\ out = call.out
        /\ log = <<>>

C32_Witness ==
    /\ IsCall("deploy_configs")
    /\ ~cfgTree.root
    /\ KnownCertIn(certsDir)
    /\ "NODE_EXTRA_CA_CERTS" \notin DOMAIN env.vars
    /\ ret.ok

====
